---- MODULE Spec2Model ----
(***************************************************************************)
(* Verification model of the JarvisRobotHub view-state and explosion       *)
(* engine: SimpleStateMachine (interaction/gestureController.ts),          *)
(* ExplodeController (explodeController.ts) and SelectionController        *)
(* (selectionController.ts).                                               *)
(*                                                                         *)
(* Numbers.  The code computes in IEEE doubles.  The model computes in     *)
(* fixed point: explosion factors in units of 1/FOne, positions and node   *)
(* scales in units of 1/POne.  A product is rounded toward zero.  Both     *)
(* units are fine enough that every threshold of the code (0.001 for       *)
(* factors, 0.01 for positions and scales) is many units wide, so a value  *)
(* that the code still moves is still moved by the model.                  *)
(***************************************************************************)
EXTENDS Integers, Sequences, FiniteSets, TLC

----------------------------------------------------------------------------
(* Fixed-point arithmetic *)

FOne == 100 * 1000          \* the factor 1.0
POne == 10 * 1000           \* the length 1.0 and the node scale 1.0

Null == "null"

Abs(x) == IF x < 0 THEN -x ELSE x
Min(a, b) == IF a < b THEN a ELSE b
Max(a, b) == IF a > b THEN a ELSE b

\* a * num / den, rounded toward zero
MulDiv(a, num, den) ==
  IF a * num >= 0 THEN (a * num) \div den ELSE -((-(a * num)) \div den)

VAdd(a, b) == <<a[1] + b[1], a[2] + b[2], a[3] + b[3]>>

\* v * f for a factor f in units of 1/FOne
VScaleF(v, f) == <<MulDiv(v[1], f, FOne), MulDiv(v[2], f, FOne), MulDiv(v[3], f, FOne)>>

\* THREE.Vector3.distanceTo(a, b) < eps, without forming squares of large numbers
DistLt(a, b, eps) ==
  /\ Abs(a[1] - b[1]) < eps
  /\ Abs(a[2] - b[2]) < eps
  /\ Abs(a[3] - b[3]) < eps
  /\ (a[1] - b[1]) * (a[1] - b[1]) + (a[2] - b[2]) * (a[2] - b[2])
       + (a[3] - b[3]) * (a[3] - b[3]) < eps * eps

\* THREE.MathUtils.lerp(x, y, t), t = num/100
Lerp(x, y, num) == x + MulDiv(y - x, num, 100)

\* THREE.Vector3.lerp(target, t), t = num/100
VLerp(a, b, num) == <<Lerp(a[1], b[1], num), Lerp(a[2], b[2], num), Lerp(a[3], b[3], num)>>

----------------------------------------------------------------------------
(* mechConfig.ts: the part hierarchy *)

majorParts == <<"Head", "neck", "mainbody", "Leftarm", "Rightarm", "Leftleg", "Rightleg">>

MajorPartId == {majorParts[i] : i \in 1..Len(majorParts)}

childrenMap(p) ==
  CASE p = "Leftarm"  -> <<"Leftupperarm", "Leftdownarm", "Lefthand">>
    [] p = "Rightarm" -> <<"Rightupperarm", "Rightdownarm", "Righthand">>
    [] p = "Leftleg"  -> <<"Leftupperleg", "Leftdownleg", "Leftfeet">>
    [] p = "Rightleg" -> <<"Rightupperleg", "Rightdownleg", "Rightfeet">>
    [] OTHER          -> <<>>

getChildParts(p) == childrenMap(p)

ChildrenOf(p) == {getChildParts(p)[i] : i \in 1..Len(getChildParts(p))}

ChildPartId == UNION {ChildrenOf(p) : p \in MajorPartId}

PartId == MajorPartId \cup ChildPartId

IndexOf(p) == CHOOSE i \in 1..Len(majorParts) : majorParts[i] = p

\* MECH_HIERARCHY.majorParts.indexOf(p), 0-based
indexOf(p) == IndexOf(p) - 1

\* EXPLODE_OFFSETS[p]: normalize(direction) * distance, in units of 1/POne
ExplodeVector(p) ==
  CASE p = "Head"          -> <<0, 4472, 2236>>
    [] p = "neck"          -> <<0, 2572, 1543>>
    [] p = "mainbody"      -> <<0, 392, 1961>>
    [] p = "Leftarm"       -> <<5644, 1129, 1693>>
    [] p = "Rightarm"      -> <<-5644, 1129, 1693>>
    [] p = "Leftleg"       -> <<1185, -5133, 1580>>
    [] p = "Rightleg"      -> <<-1185, -5133, 1580>>
    [] p = "Leftupperarm"  -> <<1863, 745, 1491>>
    [] p = "Leftdownarm"   -> <<1852, 463, 2315>>
    [] p = "Lefthand"      -> <<1565, 0, 3130>>
    [] p = "Rightupperarm" -> <<-1863, 745, 1491>>
    [] p = "Rightdownarm"  -> <<-1852, 463, 2315>>
    [] p = "Righthand"     -> <<-1565, 0, 3130>>
    [] p = "Leftupperleg"  -> <<1500, 0, 2000>>
    [] p = "Leftdownleg"   -> <<1095, -548, 2739>>
    [] p = "Leftfeet"      -> <<639, -1278, 3195>>
    [] p = "Rightupperleg" -> <<-1500, 0, 2000>>
    [] p = "Rightdownleg"  -> <<-1095, -548, 2739>>
    [] p = "Rightfeet"     -> <<-639, -1278, 3195>>

\* PartConfig.originalPosition: the rest pose captured from the loaded asset.
\* The asset is data outside the code; the model takes one pose per part.
originalPosition(p) ==
  CASE p = "Head"     -> <<0, 16000, 0>>
    [] p = "neck"     -> <<0, 14000, 0>>
    [] p = "mainbody" -> <<0, 10000, 0>>
    [] p = "Leftarm"  -> <<4000, 12000, 0>>
    [] p = "Rightarm" -> <<-4000, 12000, 0>>
    [] p = "Leftleg"  -> <<2000, 5000, 0>>
    [] p = "Rightleg" -> <<-2000, 5000, 0>>
    [] p \in {"Leftupperarm", "Rightupperarm", "Leftupperleg", "Rightupperleg"} -> <<0, -1000, 0>>
    [] p \in {"Leftdownarm", "Rightdownarm", "Leftdownleg", "Rightdownleg"}     -> <<0, -3000, 0>>
    [] OTHER          -> <<0, -5000, 200>>

----------------------------------------------------------------------------
(* SimpleStateMachine: configuration *)

mainRingCenter == <<0, 1000, 20000>>

partPositionInMainRing(p) ==
  CASE p = "Head"     -> <<-1000, -14000, -10000>>
    [] p = "neck"     -> <<-2000, -14000, -10000>>
    [] p = "mainbody" -> <<-1000, -10000, -10000>>
    [] p = "Leftarm"  -> <<-2000, -1000, -10000>>
    [] p = "Rightarm" -> <<1000, -1000, -10000>>
    [] p = "Leftleg"  -> <<0, 1000, -10000>>
    [] p = "Rightleg" -> <<0, 1000, -10000>>

partPositionInSubRing(p) ==
  CASE p = "Head"     -> <<-500, 12000, 13000>>
    [] p = "neck"     -> <<-18000, 3500, 13000>>
    [] p = "mainbody" -> <<-22500, -15500, 13000>>
    [] p = "Leftarm"  -> <<-10000, -22000, 13000>>
    [] p = "Rightarm" -> <<10000, -22000, 13000>>
    [] p = "Leftleg"  -> <<21000, -5000, 13000>>
    [] p = "Rightleg" -> <<18000, 15000, 13000>>

\* subRingFixedPositions[i], i 0-based: (cos, sin)(-pi/2 + i * 2pi/7) * subRingDistance,
\* z = subRingZ, as initSubRingPositions computes them, in units of 1/POne
subRingFixedPositions(i) ==
  CASE i = 0 -> <<0, -40000, -20000>>
    [] i = 1 -> <<31273, -24940, -20000>>
    [] i = 2 -> <<38997, 8901, -20000>>
    [] i = 3 -> <<17355, 36039, -20000>>
    [] i = 4 -> <<-17355, 36039, -20000>>
    [] i = 5 -> <<-38997, 8901, -20000>>
    [] i = 6 -> <<-31273, -24940, -20000>>

\* scale of a part on a secondary-ring slot, 0.7
SubRingScale == (7 * POne) \div 10

\* update(): smoothing = 0.1, as a fraction of 100
SsmSmoothing == 10

\* update(): Math.abs(current - target) > 0.001
SsmThreshold == FOne \div 1000

\* transitionSpeed = 0.08, as a fraction of 100
transitionSpeed == 8

\* applyTransitionAnimation(): posDistance < 0.01, scaleDistance < 0.01
TransitionEps == POne \div 100

----------------------------------------------------------------------------
(* SimpleStateMachine: the object.  A machine is a record s with the fields *)
(* of uiState, the targets, the transition maps and the transforms of the   *)
(* nodes of the model (model.parts.get(id).node).                           *)

EmptyMap == [k \in {} |-> 0]

\* the machine after `new SimpleStateMachine()` and init(model, scene)
SsmInit ==
  [ state                 |-> "Assembled",
    globalExplosion       |-> 0,
    partExplosion         |-> 0,
    hoveredPart           |-> Null,
    selectedMajorPart     |-> Null,
    currentPartIndex      |-> 0,
    globalExplosionTarget |-> 0,
    partExplosionTarget   |-> 0,
    transitionTargets     |-> EmptyMap,
    transitionScales      |-> EmptyMap,
    isTransitioning       |-> FALSE,
    ringDecorationVisible |-> FALSE,
    selectedSubRingIndex  |-> -1,
    position              |-> [p \in PartId |-> originalPosition(p)],
    scale                 |-> [p \in MajorPartId |-> POne] ]

\* a slot index taken from the part's place among the parts other than the focused one
slotIndexAmongOthers(selectedPart, partId) ==
  IF indexOf(partId) > indexOf(selectedPart) THEN indexOf(partId) - 1 ELSE indexOf(partId)

\* the fixedIndex under which calculateTransitionTargets looks up the ring slot of partId
slotIndexOf(selectedPart, partId) == indexOf(partId)

\* a primary-ring target without the part's own offset
mainRingTargetAtCenter(selectedPart) == mainRingCenter

\* transitionTargets.set(selectedPart, ...): primary-ring target
mainRingTarget(selectedPart) == VAdd(mainRingCenter, partPositionInMainRing(selectedPart))

\* transitionTargets.set(partId, ...): secondary-ring target
subRingTarget(selectedPart, partId) ==
  VAdd(subRingFixedPositions(slotIndexOf(selectedPart, partId)), partPositionInSubRing(partId))

calculateTransitionTargets(s, selectedPart) ==
  [s EXCEPT
     !.transitionTargets =
        [p \in MajorPartId |->
           IF p = selectedPart THEN mainRingTarget(selectedPart)
           ELSE subRingTarget(selectedPart, p)],
     !.transitionScales =
        [p \in MajorPartId |-> IF p = selectedPart THEN POne ELSE SubRingScale],
     !.selectedSubRingIndex = indexOf(selectedPart)]

applyPartViewLayout(s) ==
  IF s.selectedMajorPart = Null THEN s
  ELSE [calculateTransitionTargets(s, s.selectedMajorPart) EXCEPT !.isTransitioning = TRUE]

applyNormalExplosion(s) ==
  [s EXCEPT !.position =
     [p \in PartId |->
        IF p \in MajorPartId
        THEN VAdd(originalPosition(p), VScaleF(ExplodeVector(p), s.globalExplosion))
        ELSE s.position[p]]]

applyExplosion(s) ==
  IF s.state = "PartView" THEN applyPartViewLayout(s) ELSE applyNormalExplosion(s)

\* a transition step that keeps interpolating and never snaps to the target
transitionStepNoSnap(s, p) ==
  LET targetPos   == s.transitionTargets[p]
      targetScale == IF p \in DOMAIN s.transitionScales /\ s.transitionScales[p] # 0
                     THEN s.transitionScales[p] ELSE POne
  IN <<VLerp(s.position[p], targetPos, transitionSpeed),
       Lerp(s.scale[p], targetScale, transitionSpeed),
       s.position[p] = targetPos /\ s.scale[p] = targetScale>>

\* one part's step of applyTransitionAnimation: <<position, scale, reached>>
transitionStep(s, p) ==
  LET targetPos   == s.transitionTargets[p]
      targetScale == IF p \in DOMAIN s.transitionScales /\ s.transitionScales[p] # 0
                     THEN s.transitionScales[p] ELSE POne
      posReached  == DistLt(s.position[p], targetPos, TransitionEps)
      sclReached  == Abs(s.scale[p] - targetScale) < TransitionEps
  IN <<IF posReached THEN targetPos ELSE VLerp(s.position[p], targetPos, transitionSpeed),
       IF sclReached THEN targetScale ELSE Lerp(s.scale[p], targetScale, transitionSpeed),
       posReached /\ sclReached>>

applyTransitionAnimation(s) ==
  IF ~s.isTransitioning THEN s
  ELSE LET tracked == {p \in MajorPartId : p \in DOMAIN s.transitionTargets}
           allReached == \A p \in tracked : transitionStep(s, p)[3]
       IN [s EXCEPT
             !.position = [p \in PartId |->
                             IF p \in tracked THEN transitionStep(s, p)[1] ELSE s.position[p]],
             !.scale = [p \in MajorPartId |->
                          IF p \in tracked THEN transitionStep(s, p)[2] ELSE s.scale[p]],
             !.isTransitioning = ~allReached]

applyPartExplosion(s) ==
  IF s.selectedMajorPart = Null \/ ~(s.partExplosion > 0) THEN s
  ELSE [s EXCEPT !.position =
          [p \in PartId |->
             IF p \in ChildrenOf(s.selectedMajorPart)
             THEN VAdd(originalPosition(p), VScaleF(ExplodeVector(p), s.partExplosion))
             ELSE s.position[p]]]

\* the smoothing of one factor in update(): <<new value, changed>>
smoothFactor(current, target) ==
  IF Abs(current - target) > SsmThreshold
  THEN <<current + MulDiv(target - current, SsmSmoothing, 100), TRUE>>
  ELSE <<current, FALSE>>

update(s) ==
  LET g  == smoothFactor(s.globalExplosion, s.globalExplosionTarget)
      pe == smoothFactor(s.partExplosion, s.partExplosionTarget)
      explosionChanged == g[2] \/ pe[2]
      s1 == [s EXCEPT !.globalExplosion = g[1], !.partExplosion = pe[1]]
  IN IF s1.state = "PartView" /\ s1.isTransitioning
     THEN LET s2 == applyTransitionAnimation(s1)
          IN IF s2.partExplosion > 0 THEN applyPartExplosion(s2) ELSE s2
     ELSE IF explosionChanged THEN applyExplosion(s1) ELSE s1

transitionTo(s, newState) ==
  IF s.state = newState THEN s
  ELSE LET s1 == [s EXCEPT
                    !.state = newState,
                    !.globalExplosionTarget =
                       IF newState = "PartView" THEN Max(@, FOne) ELSE @,
                    !.ringDecorationVisible = (newState = "PartView")]
       IN IF newState = "PartView" THEN applyPartViewLayout(s1) ELSE s1

\* a clamp with the upper bound missing
clampLow(x) == Max(0, x)

clamp01(x) == Max(0, Min(FOne, x))

\* an adjustment that moves the target but never switches the state
adjustExplosionNoSwitch(s, delta) ==
  IF s.state = "PartView"
  THEN [s EXCEPT !.partExplosionTarget = clamp01(@ + delta)]
  ELSE [s EXCEPT !.globalExplosionTarget = clamp01(@ + delta)]

\* an adjustment in PartView that moves the global target along with the part target
adjustExplosionBothTargets(s, delta) ==
  IF s.state = "PartView"
  THEN [s EXCEPT !.partExplosionTarget = clamp01(@ + delta),
                 !.globalExplosionTarget = clamp01(@ + delta)]
  ELSE LET s1 == [s EXCEPT !.globalExplosionTarget = clamp01(@ + delta)]
       IN IF s1.globalExplosionTarget > FOne \div 10 /\ s1.state = "Assembled"
          THEN transitionTo(s1, "Exploded")
          ELSE IF s1.globalExplosionTarget < FOne \div 20 /\ s1.state = "Exploded"
          THEN transitionTo(s1, "Assembled")
          ELSE s1

\* an adjustment that moves the global target in PartView too
adjustExplosionAlwaysGlobal(s, delta) ==
  LET s1 == [s EXCEPT !.globalExplosionTarget = clamp01(@ + delta)]
  IN IF s1.globalExplosionTarget > FOne \div 10 /\ s1.state = "Assembled"
     THEN transitionTo(s1, "Exploded")
     ELSE IF s1.globalExplosionTarget < FOne \div 20 /\ s1.state = "Exploded"
     THEN transitionTo(s1, "Assembled")
     ELSE s1

adjustExplosion(s, delta) ==
  IF s.state = "PartView"
  THEN [s EXCEPT !.partExplosionTarget = clamp01(@ + delta)]
  ELSE LET s1 == [s EXCEPT !.globalExplosionTarget = clamp01(@ + delta)]
       IN IF s1.globalExplosionTarget > FOne \div 10 /\ s1.state = "Assembled"
          THEN transitionTo(s1, "Exploded")
          ELSE IF s1.globalExplosionTarget < FOne \div 20 /\ s1.state = "Exploded"
          THEN transitionTo(s1, "Assembled")
          ELSE s1

setHoveredPartId(s, partId) ==
  IF s.hoveredPart = partId THEN s ELSE [s EXCEPT !.hoveredPart = partId]

resetAllChildrenExcept(s, keepPart) ==
  [s EXCEPT !.position =
     [p \in PartId |->
        IF \E parentId \in MajorPartId : parentId # keepPart /\ p \in ChildrenOf(parentId)
        THEN originalPosition(p) ELSE s.position[p]]]

selectPart(s, partId) ==
  LET s1 == [s EXCEPT
               !.selectedMajorPart = partId,
               !.currentPartIndex = indexOf(partId),
               !.globalExplosionTarget = Max(@, FOne),
               !.partExplosionTarget = 0,
               !.partExplosion = 0]
      s2 == resetAllChildrenExcept(s1, partId)
  IN [calculateTransitionTargets(s2, partId) EXCEPT !.isTransitioning = TRUE]

\* a selection that pushes globalExplosion up by 0.5 instead of raising it to 0.5
selectHoveredPartBumping(s) ==
  IF s.hoveredPart = Null \/ s.hoveredPart \notin MajorPartId THEN s
  ELSE IF s.state = "Exploded" \/ s.globalExplosion > FOne \div 10
  THEN LET s1 == [s EXCEPT
                    !.selectedMajorPart = s.hoveredPart,
                    !.currentPartIndex = indexOf(s.hoveredPart),
                    !.partExplosionTarget = 0,
                    !.partExplosion = 0,
                    !.globalExplosion = Min(FOne, @ + FOne \div 2),
                    !.globalExplosionTarget = Max(@, FOne)]
       IN applyPartViewLayout(transitionTo(s1, "PartView"))
  ELSE s

\* a selection that is admitted by the current factor alone, whatever the state tag
selectHoveredPartByFactor(s) ==
  IF s.hoveredPart = Null \/ s.hoveredPart \notin MajorPartId THEN s
  ELSE IF s.globalExplosion > FOne \div 10
  THEN LET s1 == [s EXCEPT
                    !.selectedMajorPart = s.hoveredPart,
                    !.currentPartIndex = indexOf(s.hoveredPart),
                    !.partExplosionTarget = 0,
                    !.partExplosion = 0,
                    !.globalExplosion = Max(@, FOne \div 2),
                    !.globalExplosionTarget = Max(@, FOne)]
       IN applyPartViewLayout(transitionTo(s1, "PartView"))
  ELSE s

\* a selection that takes a hovered child part for the major part it belongs to
selectHoveredPartOfChild(s) ==
  IF s.hoveredPart = Null THEN s
  ELSE IF s.state = "Exploded" \/ s.globalExplosion > FOne \div 10
  THEN LET major == IF s.hoveredPart \in MajorPartId THEN s.hoveredPart
                    ELSE CHOOSE q \in MajorPartId : s.hoveredPart \in ChildrenOf(q)
           s1 == [s EXCEPT
                    !.selectedMajorPart = major,
                    !.currentPartIndex = indexOf(major),
                    !.partExplosionTarget = 0,
                    !.partExplosion = 0,
                    !.globalExplosion = Max(@, FOne \div 2),
                    !.globalExplosionTarget = Max(@, FOne)]
       IN applyPartViewLayout(transitionTo(s1, "PartView"))
  ELSE s

\* selectHoveredPart(): the machine it leaves
\* a selection that leaves currentPartIndex alone
selectHoveredPartKeepingIndex(s) ==
  IF s.hoveredPart = Null THEN s
  ELSE IF s.state = "Exploded" \/ s.globalExplosion > FOne \div 10
  THEN IF s.hoveredPart \in MajorPartId
       THEN LET s1 == [s EXCEPT
                         !.selectedMajorPart = s.hoveredPart,
                         !.partExplosionTarget = 0,
                         !.partExplosion = 0,
                         !.globalExplosion = Max(@, FOne \div 2),
                         !.globalExplosionTarget = Max(@, FOne)]
            IN applyPartViewLayout(transitionTo(s1, "PartView"))
       ELSE s
  ELSE IF s.state = "PartView" /\ s.hoveredPart \in MajorPartId
  THEN selectPart(s, s.hoveredPart)
  ELSE s

selectHoveredPartState(s) ==
  IF s.hoveredPart = Null THEN s
  ELSE IF s.state = "Exploded" \/ s.globalExplosion > FOne \div 10
  THEN IF s.hoveredPart \in MajorPartId
       THEN LET s1 == [s EXCEPT
                         !.selectedMajorPart = s.hoveredPart,
                         !.currentPartIndex = indexOf(s.hoveredPart),
                         !.partExplosionTarget = 0,
                         !.partExplosion = 0,
                         !.globalExplosion = Max(@, FOne \div 2),
                         !.globalExplosionTarget = Max(@, FOne)]
            IN applyPartViewLayout(transitionTo(s1, "PartView"))
       ELSE s
  ELSE IF s.state = "PartView" /\ s.hoveredPart \in MajorPartId
  THEN selectPart(s, s.hoveredPart)
  ELSE s

\* selectHoveredPart(): the boolean it returns
selectHoveredPartResult(s) ==
  /\ s.hoveredPart # Null
  /\ s.hoveredPart \in MajorPartId
  /\ (s.state = "Exploded" \/ s.globalExplosion > FOne \div 10 \/ s.state = "PartView")

\* a navigation that stops at the ends of the list instead of wrapping around
navigateInternalClamped(s, delta) ==
  IF s.state # "PartView" /\ s.state # "Exploded" THEN s
  ELSE LET n  == Len(majorParts)
           s1 == [s EXCEPT !.currentPartIndex = Max(0, Min(n - 1, @ + delta))]
           newPart == majorParts[s1.currentPartIndex + 1]
       IN IF s1.state = "PartView" THEN selectPart(s1, newPart)
          ELSE [s1 EXCEPT !.hoveredPart = newPart]

\* a navigation that selects the part it highlights in the exploded view as well
navigateInternalSelecting(s, delta) ==
  IF s.state # "PartView" /\ s.state # "Exploded" THEN s
  ELSE LET n  == Len(majorParts)
           s1 == [s EXCEPT !.currentPartIndex = (@ + delta + n) % n]
           newPart == majorParts[s1.currentPartIndex + 1]
       IN IF s1.state = "PartView" THEN selectPart(s1, newPart)
          ELSE [s1 EXCEPT !.hoveredPart = newPart, !.selectedMajorPart = newPart]

navigateInternal(s, delta) ==
  IF s.state # "PartView" /\ s.state # "Exploded" THEN s
  ELSE LET n  == Len(majorParts)
           s1 == [s EXCEPT !.currentPartIndex = (@ + delta + n) % n]
           newPart == majorParts[s1.currentPartIndex + 1]
       IN IF s1.state = "PartView" THEN selectPart(s1, newPart)
          ELSE [s1 EXCEPT !.hoveredPart = newPart]

navigate(s, direction) == navigateInternal(s, IF direction = "up" THEN -1 ELSE 1)

navigateLeftRight(s, direction) == navigateInternal(s, IF direction = "left" THEN -1 ELSE 1)

\* a scale reset that does nothing
keepAllPartScales(s) == s

resetAllPartScales(s) == [s EXCEPT !.scale = [p \in MajorPartId |-> POne]]

resetAllPartPositions(s) ==
  [s EXCEPT !.position =
     [p \in PartId |-> IF p \in MajorPartId THEN originalPosition(p) ELSE s.position[p]]]

\* goBack() that forgets to clear the selection
goBackKeepingSelection(s) ==
  IF s.state = "PartView"
  THEN transitionTo([s EXCEPT !.hoveredPart = Null, !.globalExplosionTarget = 0], "Assembled")
  ELSE s

\* goBack() that leaves the part factor and its target as they are
goBackKeepingPartFactor(s) ==
  IF s.state = "PartView"
  THEN LET s1 == [resetAllChildrenExcept(s, Null) EXCEPT
                    !.hoveredPart = Null,
                    !.selectedMajorPart = Null]
           s2 == resetAllPartPositions(resetAllPartScales(s1))
       IN transitionTo([s2 EXCEPT !.globalExplosionTarget = 0], "Assembled")
  ELSE IF s.state = "Exploded"
  THEN [s EXCEPT !.globalExplosionTarget = 0]
  ELSE s

\* goBack() that in the exploded view only halves the target
goBackHalving(s) ==
  IF s.state = "PartView"
  THEN LET s1 == [resetAllChildrenExcept(s, Null) EXCEPT
                    !.hoveredPart = Null,
                    !.selectedMajorPart = Null,
                    !.partExplosionTarget = 0,
                    !.partExplosion = 0]
           s2 == resetAllPartPositions(resetAllPartScales(s1))
       IN transitionTo([s2 EXCEPT !.globalExplosionTarget = 0], "Assembled")
  ELSE IF s.state = "Exploded"
  THEN [s EXCEPT !.globalExplosionTarget = @ \div 2]
  ELSE s

goBack(s) ==
  IF s.state = "PartView"
  THEN LET s1 == [resetAllChildrenExcept(s, Null) EXCEPT
                    !.hoveredPart = Null,
                    !.selectedMajorPart = Null,
                    !.partExplosionTarget = 0,
                    !.partExplosion = 0]
           s2 == resetAllPartPositions(resetAllPartScales(s1))
       IN transitionTo([s2 EXCEPT !.globalExplosionTarget = 0], "Assembled")
  ELSE IF s.state = "Exploded"
  THEN [s EXCEPT !.globalExplosionTarget = 0]
  ELSE s

reset(s) ==
  [s EXCEPT
     !.state = "Assembled",
     !.globalExplosion = 0,
     !.partExplosion = 0,
     !.hoveredPart = Null,
     !.selectedMajorPart = Null,
     !.currentPartIndex = 0,
     !.globalExplosionTarget = 0,
     !.partExplosionTarget = 0,
     !.position = [p \in PartId |-> originalPosition(p)]]

----------------------------------------------------------------------------
(* ExplodeController (explodeController.ts) *)

\* EXPLODE_CONFIG.SMOOTHING = 0.08, as a fraction of 100
SMOOTHING == 8

\* EXPLODE_CONFIG.CHANGE_THRESHOLD = 0.001
CHANGE_THRESHOLD == FOne \div 1000

\* EXPLODE_CONFIG.MAX_CHANGE_PER_FRAME = 0.05
MAX_CHANGE_PER_FRAME == FOne \div 20

\* the default `amount = 0.02` of the increase/decrease methods
DefaultAmount == FOne \div 50

\* EXPLODE_CONFIG.ROTATION_AMOUNT = 0.1 and GLOBAL_SCALE = 1.0, as fractions of 100
ROTATION_AMOUNT == 10
GLOBAL_SCALE == 100

\* the parts of the model the controller tracks (getPartsArray(model)); the model
\* follows two of them
EcTracked == {"Head", "Leftarm"}

\* PartData.explodeDirection: normalize(EXPLODE_OFFSETS[p].direction), in 1/POne
explodeDirection(p) ==
  CASE p = "Head"    -> <<0, 8944, 4472>>
    [] p = "Leftarm" -> <<9407, 1881, 2822>>

\* PartData.explodeDistance: EXPLODE_OFFSETS[p].distance, in 1/POne
explodeDistance(p) ==
  CASE p = "Head"    -> 5000
    [] p = "Leftarm" -> 6000

\* PartData.basePosition and baseRotation: the pose of the mesh when setModel cached it
basePosition(p) == originalPosition(p)

baseRotation(p) ==
  CASE p = "Head"    -> <<0, 0, 0>>
    [] p = "Leftarm" -> <<0, 0, 1500>>

\* v * k for a scalar k in units of 1/POne
VScaleP(v, k) == <<MulDiv(v[1], k, POne), MulDiv(v[2], k, POne), MulDiv(v[3], k, POne)>>

\* globalFactorCurrent * GLOBAL_SCALE
effectiveFactor(c) == MulDiv(c.globalFactorCurrent, GLOBAL_SCALE, 100)

\* explodeDirection * (explodeDistance * effectiveFactor * 2), in 1/POne
explodeOffset(c, p) ==
  VScaleP(explodeDirection(p), MulDiv(explodeDistance(p) * 2, effectiveFactor(c), FOne))

\* the rotation updatePartPositions gives the mesh of part p
explodeRotation(c, p) ==
  IF effectiveFactor(c) > FOne \div 100
  THEN VAdd(baseRotation(p),
            VScaleF(explodeDirection(p), MulDiv(effectiveFactor(c), ROTATION_AMOUNT, 100)))
  ELSE baseRotation(p)

\* updatePartPositions() that adds the offset to the position the mesh has
updatePartPositionsAccumulating(c) ==
  [c EXCEPT
     !.meshPosition = [p \in EcTracked |-> VAdd(c.meshPosition[p], explodeOffset(c, p))],
     !.meshRotation = [p \in EcTracked |-> explodeRotation(c, p)]]

updatePartPositions(c) ==
  [c EXCEPT
     !.meshPosition = [p \in EcTracked |-> VAdd(basePosition(p), explodeOffset(c, p))],
     !.meshRotation = [p \in EcTracked |-> explodeRotation(c, p)]]

\* the controller after `new ExplodeController()` and setModel(model)
EcInit ==
  [ globalFactorCurrent |-> 0,
    globalFactorTarget  |-> 0,
    partFactorCurrent   |-> 0,
    partFactorTarget    |-> 0,
    focusRoot           |-> Null,
    currentLevel        |-> "global",
    globalNotified      |-> FALSE,   \* update() invoked onGlobalFactorChange
    partNotified        |-> FALSE,   \* update() invoked onPartFactorChange
    globalDelivered     |-> Null,    \* the factor last passed to onGlobalFactorChange
    partDelivered       |-> Null,    \* the factor last passed to onPartFactorChange
    meshPosition        |-> [p \in EcTracked |-> basePosition(p)],   \* part.mesh.position
    meshRotation        |-> [p \in EcTracked |-> baseRotation(p)] ]  \* part.mesh.rotation

setGlobalExplosionTarget(c, factor) ==
  [c EXCEPT !.globalFactorTarget = Max(0, Min(FOne, factor))]

increaseGlobalExplosion(c, amount) ==
  [c EXCEPT !.globalFactorTarget = Min(FOne, @ + amount)]

decreaseGlobalExplosion(c, amount) ==
  [c EXCEPT !.globalFactorTarget = Max(0, @ - amount)]

setPartExplosionTarget(c, factor) ==
  [c EXCEPT !.partFactorTarget = Max(0, Min(FOne, factor))]

increasePartExplosion(c, amount) ==
  [c EXCEPT !.partFactorTarget = Min(FOne, @ + amount)]

decreasePartExplosion(c, amount) ==
  [c EXCEPT !.partFactorTarget = Max(0, @ - amount)]

setFocusRoot(c, object) ==
  IF object # Null
  THEN [c EXCEPT !.focusRoot = object, !.currentLevel = "part",
                 !.partFactorCurrent = 0, !.partFactorTarget = 0]
  ELSE [c EXCEPT !.focusRoot = object, !.currentLevel = "global"]

increaseCurrentExplosion(c, amount) ==
  IF c.currentLevel = "global" \/ c.focusRoot = Null
  THEN increaseGlobalExplosion(c, amount) ELSE increasePartExplosion(c, amount)

decreaseCurrentExplosion(c, amount) ==
  IF c.currentLevel = "global" \/ c.focusRoot = Null
  THEN decreaseGlobalExplosion(c, amount) ELSE decreasePartExplosion(c, amount)

\* a smoothing step without the final snap onto the target
smoothValueNoSnap(current, target, smoothing) ==
  current + Max(-MAX_CHANGE_PER_FRAME,
                Min(MAX_CHANGE_PER_FRAME, MulDiv(target - current, smoothing, 100)))

\* a smoothing step that does not clamp the change
smoothValueUnclamped(current, target, smoothing) ==
  LET newValue == current + MulDiv(target - current, smoothing, 100)
  IN IF Abs(newValue - target) < CHANGE_THRESHOLD THEN target ELSE newValue

\* a smoothing step one and a half times the distance long
smoothValueOvershooting(current, target, smoothing) ==
  LET diff        == target - current
      clampedDiff == Max(-MAX_CHANGE_PER_FRAME,
                         Min(MAX_CHANGE_PER_FRAME, MulDiv(diff, 100 + 50, 100)))
      newValue    == current + clampedDiff
  IN IF Abs(newValue - target) < CHANGE_THRESHOLD THEN target ELSE newValue

smoothValue(current, target, smoothing) ==
  LET diff        == target - current
      clampedDiff == Max(-MAX_CHANGE_PER_FRAME,
                         Min(MAX_CHANGE_PER_FRAME, MulDiv(diff, smoothing, 100)))
      newValue    == current + clampedDiff
  IN IF Abs(newValue - target) < CHANGE_THRESHOLD THEN target ELSE newValue

\* update() that notifies for as long as the factor is away from its target
EcUpdateNotifyOffTarget(c) ==
  LET newGlobal == smoothValue(c.globalFactorCurrent, c.globalFactorTarget, SMOOTHING)
      newPart   == smoothValue(c.partFactorCurrent, c.partFactorTarget, SMOOTHING)
      gMoved    == Abs(newGlobal - c.globalFactorTarget) > CHANGE_THRESHOLD
      pMoved    == Abs(newPart - c.partFactorTarget) > CHANGE_THRESHOLD
      smoothed  == [c EXCEPT
                      !.globalFactorCurrent = newGlobal,
                      !.partFactorCurrent   = newPart,
                      !.globalNotified      = gMoved,
                      !.partNotified        = pMoved,
                      !.globalDelivered     = IF gMoved THEN newGlobal ELSE @,
                      !.partDelivered       = IF pMoved THEN newPart ELSE @]
  IN CHOOSE updated \in {updatePartPositions(d) : d \in {smoothed}} : TRUE

\* update(); the controller with the smoothed factors is formed once and handed to
\* updatePartPositions as a value
EcUpdate(c) ==
  LET newGlobal == smoothValue(c.globalFactorCurrent, c.globalFactorTarget, SMOOTHING)
      newPart   == smoothValue(c.partFactorCurrent, c.partFactorTarget, SMOOTHING)
      gMoved    == Abs(newGlobal - c.globalFactorCurrent) > CHANGE_THRESHOLD
      pMoved    == Abs(newPart - c.partFactorCurrent) > CHANGE_THRESHOLD
      smoothed  == [c EXCEPT
                      !.globalFactorCurrent = newGlobal,
                      !.partFactorCurrent   = newPart,
                      !.globalNotified      = gMoved,
                      !.partNotified        = pMoved,
                      !.globalDelivered     = IF gMoved THEN newGlobal ELSE @,
                      !.partDelivered       = IF pMoved THEN newPart ELSE @]
  IN CHOOSE updated \in {updatePartPositions(d) : d \in {smoothed}} : TRUE

EcReset(c) == [c EXCEPT !.globalFactorTarget = 0, !.partFactorTarget = 0]

resetImmediate(c) ==
  updatePartPositions(
    [c EXCEPT !.globalFactorCurrent = 0, !.globalFactorTarget = 0,
              !.partFactorCurrent = 0, !.partFactorTarget = 0])

----------------------------------------------------------------------------
(* SelectionController (selectionController.ts) *)

\* part.mesh.children.length > 0: the arms and legs are Object3D groups of three meshes
hasChildMeshes(p) == Len(getChildParts(p)) > 0

\* the meshes setPartOpacity / highlightPart reach from part p: p's own mesh when it
\* is a THREE.Mesh, and the child meshes that mesh.traverse visits
meshesOf(p) == IF hasChildMeshes(p) THEN ChildrenOf(p) ELSE {p}

\* SELECTION_CONFIG.DIM_OPACITY = 0.2 and full opacity, in percent
DIM_OPACITY == 20
FullOpacity == 100

\* the controller after `new SelectionController()` and init(model, camera)
SelInit ==
  [ selectedPart    |-> Null,
    focusMode       |-> "global",
    focusRoot       |-> Null,
    navigationStack |-> <<>>,
    emissive        |-> [m \in PartId |-> "original"],
    opacity         |-> [m \in PartId |-> FullOpacity],
    scaleSaved      |-> {},          \* meshes with userData.originalScale
    emitted         |-> <<>> ]       \* the callbacks the last call invoked, in order

emitSelectionChange(c) == [c EXCEPT !.emitted = Append(@, "onSelectionChange")]

highlightPart(c, part) ==
  [c EXCEPT !.emissive =
     [m \in PartId |->
        IF m \in meshesOf(part)
        THEN (IF m = part THEN "highlight" ELSE "highlightHalf")
        ELSE c.emissive[m]]]

unhighlightPart(c, part) ==
  [c EXCEPT !.emissive =
     [m \in PartId |-> IF m \in meshesOf(part) THEN "original" ELSE c.emissive[m]]]

focusOnPart(c, part) == [c EXCEPT !.scaleSaved = @ \cup {part}]

setFocusMode(c, mode, part) ==
  [c EXCEPT !.focusMode = mode, !.focusRoot = part,
            !.emitted = Append(@, "onFocusModeChange")]

dimOtherParts(c, selected) ==
  [c EXCEPT !.opacity =
     [m \in PartId |->
        IF \E q \in PartId : q # selected /\ m \in meshesOf(q)
        THEN DIM_OPACITY ELSE c.opacity[m]]]

restoreAllParts(c) == [c EXCEPT !.opacity = [m \in PartId |-> FullOpacity]]

\* a drill that moves the focus root but does not record the part on the stack
drillDownWithoutPush(c) ==
  IF c.selectedPart = Null THEN c
  ELSE IF hasChildMeshes(c.selectedPart)
  THEN emitSelectionChange([c EXCEPT !.focusRoot = c.selectedPart, !.selectedPart = Null])
  ELSE c

drillDown(c) ==
  IF c.selectedPart = Null THEN c
  ELSE IF hasChildMeshes(c.selectedPart)
  THEN emitSelectionChange(
         [c EXCEPT !.navigationStack = Append(@, c.selectedPart),
                   !.focusRoot = c.selectedPart,
                   !.selectedPart = Null])
  ELSE c

setSelectedPart(c, part) ==
  IF part # Null /\ c.selectedPart = part THEN drillDown(c)
  ELSE LET c1 == IF c.selectedPart # Null THEN unhighlightPart(c, c.selectedPart) ELSE c
           c2 == [c1 EXCEPT !.selectedPart = part]
           c3 == IF part # Null
                 THEN dimOtherParts(setFocusMode(focusOnPart(highlightPart(c2, part), part),
                                                 "part", part), part)
                 ELSE restoreAllParts(setFocusMode(c2, "global", Null))
       IN emitSelectionChange(c3)

clearSelection(c) ==
  LET c1 == IF c.selectedPart # Null THEN unhighlightPart(c, c.selectedPart) ELSE c
      c2 == [c1 EXCEPT !.selectedPart = Null, !.focusRoot = Null,
                       !.navigationStack = <<>>, !.focusMode = "global"]
  IN [emitSelectionChange(restoreAllParts(c2)) EXCEPT
        !.emitted = Append(@, "onFocusModeChange")]

SelGoBack(c) ==
  IF Len(c.navigationStack) > 0
  THEN LET n            == Len(c.navigationStack)
           previousPart == c.navigationStack[n]
           rest         == SubSeq(c.navigationStack, 1, n - 1)
           c1 == [c EXCEPT !.navigationStack = rest]
           c2 == IF Len(rest) > 0
                 THEN [c1 EXCEPT !.focusRoot = rest[Len(rest)], !.selectedPart = previousPart]
                 ELSE setFocusMode([c1 EXCEPT !.focusRoot = Null,
                                              !.selectedPart = previousPart], "global", Null)
       IN emitSelectionChange(restoreAllParts(c2))
  ELSE IF c.focusMode = "part" THEN clearSelection(c)
  ELSE c

----------------------------------------------------------------------------
(* SimpleMouseController (simpleMouseController.ts).  A controller is a     *)
(* record m with the hovered part and the time of the last single click;    *)
(* the model is set and the controller is enabled, as main.ts leaves it.    *)

\* doubleClickThreshold = 300 ms
doubleClickThreshold == 300

\* the controller after construction
\* (interactableParts as main.ts sets it right after construction)
MouseInit ==
  [hoveredPartId |-> Null, lastClickTime |-> 0, interactableParts |-> MajorPartId]

\* setInteractableParts(partIds): the ids are kept as a Set
setInteractableParts(m, partIds) == [m EXCEPT !.interactableParts = partIds]

\* onMouseMove(event) with the ray hitting part `hit` (Null: no part under the mouse):
\* the controller it leaves.  The hovered meshes are all the meshes of the hit part, so
\* isSamePart holds exactly when the hit part is the hovered one.
onMouseMove(m, hit) ==
  IF hit # Null
  THEN IF m.hoveredPartId = hit THEN m ELSE [m EXCEPT !.hoveredPartId = hit]
  ELSE IF m.hoveredPartId # Null THEN [m EXCEPT !.hoveredPartId = Null] ELSE m

\* onMouseMove(event): callbacks.onHover(hit, ...) is called
onMouseMoveReportsHover(m, hit) ==
  IF hit # Null THEN m.hoveredPartId # hit ELSE m.hoveredPartId # Null

\* onClick(event) at time now: callbacks.onDoubleClick(hoveredPartId) is called
onClickReportsDoubleClick(m, now) ==
  now - m.lastClickTime < doubleClickThreshold /\ m.hoveredPartId # Null

\* onClick(event) at time now: the controller it leaves
onClick(m, now) ==
  IF onClickReportsDoubleClick(m, now)
  THEN [m EXCEPT !.lastClickTime = 0]
  ELSE [m EXCEPT !.lastClickTime = now]

----------------------------------------------------------------------------
(* GestureController (gestureController.ts 149-155, 214-225, 472-648).  The *)
(* controller is a record; times are Date.now() values in ms.  Of the right *)
(* hand only what reaches the mode fields is kept: whether its gesture      *)
(* counts as an interaction, and whether it selects a part in explode mode. *)

MODE_SWITCH_STABLE_TIME == 500
MODE_SWITCH_STABLE_TIME_3 == 600
MODE_SWITCH_STABLE_TIME_4 == 800
MODE_LOCK_DURATION == 5000
AUTO_RESET_TIMEOUT == 60000
STABLE_FRAMES == 4

\* the delay of the setTimeout that returns to watch mode after a selection
SelectWatchDelay == 100

GestureMode == {"watch", "zoom", "explode", "component"}

\* the controller when init() has run at time now
GcInit(now) ==
  [currentMode |-> "watch", lastModeChangeTime |-> now, lastInteractionTime |-> now,
   modeSwitchByGesture |-> TRUE,
   leftShape |-> "other", leftShapeStableCount |-> 0, lastLeftShape |-> "other",
   leftModeGestureStartTime |-> 0, leftPendingMode |-> Null]

\* the lock applied to every caller
setModeLockedForAll(g, byGesture, now) ==
  now - g.lastModeChangeTime < MODE_LOCK_DURATION /\ g.modeSwitchByGesture

\* setMode(mode, byGesture) refuses: a gesture switch inside the lock
setModeLocked(g, byGesture, now) ==
  byGesture /\ now - g.lastModeChangeTime < MODE_LOCK_DURATION /\ g.modeSwitchByGesture

\* setMode(mode, byGesture) at time now
setMode(g, mode, byGesture, now) ==
  IF setModeLocked(g, byGesture, now) THEN g
  ELSE IF g.currentMode # mode
       THEN [g EXCEPT !.currentMode = mode, !.lastModeChangeTime = now,
                      !.lastInteractionTime = now, !.modeSwitchByGesture = byGesture]
       ELSE g

\* updateHandShapes, left hand: left is the shape seen, Null if no left hand
updateHandShapes(g, left) ==
  IF left # Null
  THEN [g EXCEPT !.leftShape = left,
                 !.leftShapeStableCount =
                    IF left = g.lastLeftShape
                    THEN Min(g.leftShapeStableCount + 1, STABLE_FRAMES * 3) ELSE 1,
                 !.lastLeftShape = left]
  ELSE [g EXCEPT !.leftShape = "other", !.leftShapeStableCount = 0]

isShapeStable(stableCount) == stableCount >= STABLE_FRAMES

\* the mode a stable left-hand shape asks for, Null if none
leftTargetMode(g) ==
  IF ~isShapeStable(g.leftShapeStableCount) THEN Null
  ELSE CASE g.leftShape = "one" -> "watch"
         [] g.leftShape = "two" -> "zoom"
         [] g.leftShape = "three" -> "explode"
         [] g.leftShape = "four" -> "component"
         [] OTHER -> Null

requiredStableTime(targetMode) ==
  CASE targetMode = "explode" -> MODE_SWITCH_STABLE_TIME_3
    [] targetMode = "component" -> MODE_SWITCH_STABLE_TIME_4
    [] OTHER -> MODE_SWITCH_STABLE_TIME

\* checkLeftHandModeSwitch(now)
checkLeftHandModeSwitch(g, now) ==
  LET cleared == [g EXCEPT !.leftModeGestureStartTime = 0, !.leftPendingMode = Null]
      targetMode == leftTargetMode(g)
  IN IF g.modeSwitchByGesture /\ now - g.lastModeChangeTime < MODE_LOCK_DURATION
     THEN cleared
     ELSE IF targetMode # Null /\ targetMode # g.currentMode
          THEN IF g.leftPendingMode = targetMode
               THEN IF now - g.leftModeGestureStartTime >= requiredStableTime(targetMode)
                    THEN [setMode(g, targetMode, TRUE, now) EXCEPT
                            !.leftModeGestureStartTime = 0, !.leftPendingMode = Null]
                    ELSE g
               ELSE [g EXCEPT !.leftPendingMode = targetMode,
                              !.leftModeGestureStartTime = now]
          ELSE cleared

\* checkAutoReset(now) finds the controller due for the return to watch mode
autoResetDue(g, now) ==
  g.currentMode # "watch" /\ now - g.lastInteractionTime > AUTO_RESET_TIMEOUT

\* checkAutoReset(now)
checkAutoReset(g, now) ==
  IF autoResetDue(g, now) THEN setMode(g, "watch", FALSE, now) ELSE g

\* the right hand selects a part: explode mode's click mode, on a pinch or a hover
rightHandSelects(g, right) == right = "select" /\ g.currentMode = "explode"

\* processRightHandByMode(rightHand, now): right is Null (no right hand, or a
\* shape the mode ignores), "interact" (the mode's gesture) or "select"
processRightHandByMode(g, right, now) ==
  IF right = "interact" \/ rightHandSelects(g, right)
  THEN [g EXCEPT !.lastInteractionTime = now]
  ELSE g

\* onResults(results) at time now up to the right hand's processing, the canvas
\* being there since init()
onResultsBeforeRightHand(g, left, now) ==
  LET shaped == updateHandShapes(g, left)
      watched == checkAutoReset(shaped, now)
  IN IF left # Null THEN checkLeftHandModeSwitch(watched, now) ELSE watched

\* onResults(results) at time now
onResults(g, left, right, now) ==
  processRightHandByMode(onResultsBeforeRightHand(g, left, now), right, now)

----------------------------------------------------------------------------
(* GestureController in explode mode (gestureController.ts 166-172, 232-248, *)
(* 651-675, 789-878).  The record holds the fields processExplodeMode reads  *)
(* and writes, the stability of the right hand's shape and the time of the   *)
(* last frame.  processClickMode writes none of them.                        *)

EXPLOSION_COOLDOWN == 1500
AGGREGATION_BLOCK_TIME == 3000

\* a time later than every time a run reaches: the Infinity that entering click
\* mode writes to aggregationBlockedUntil
Infinity == 1000000

\* the shapes getHandShape tells apart in explode mode ('one' is handled as 'pointer')
RightShapes == {"open", "pointer", "fist", "other"}

XmInit ==
  [ rightShape              |-> "other",
    rightShapeStableCount   |-> 0,
    lastRightShape          |-> "other",
    isExploding             |-> FALSE,
    lastExplosionTime       |-> 0,
    lastAggregationTime     |-> 0,
    isInClickMode           |-> FALSE,
    aggregationBlockedUntil |-> 0,
    lastFrameTime           |-> 0 ]

\* updateHandShapes(leftHand, rightHand): the right hand (shape Null: no right hand)
updateRightHandShape(x, shape) ==
  IF shape # Null
  THEN [x EXCEPT !.rightShape = shape,
                 !.rightShapeStableCount =
                    IF shape = x.lastRightShape
                    THEN Min(@ + 1, STABLE_FRAMES * 3) ELSE 1,
                 !.lastRightShape = shape]
  ELSE [x EXCEPT !.rightShape = "other", !.rightShapeStableCount = 0]

\* the fist branch of processExplodeMode: canAggregate
canAggregate(x, now) ==
  /\ now > x.aggregationBlockedUntil
  /\ now - x.lastAggregationTime > EXPLOSION_COOLDOWN

processExplodeMode(x, now) ==
  LET stable == isShapeStable(x.rightShapeStableCount)
  IN IF x.rightShape = "open" /\ stable
     THEN [x EXCEPT !.isInClickMode = FALSE,
                    !.isExploding = TRUE,
                    !.lastExplosionTime = now,
                    !.aggregationBlockedUntil = now + AGGREGATION_BLOCK_TIME]
     ELSE IF x.rightShape = "pointer" /\ stable
     THEN [x EXCEPT !.isExploding = FALSE,
                    !.isInClickMode = TRUE,
                    !.aggregationBlockedUntil = IF x.isInClickMode THEN @ ELSE Infinity]
     ELSE IF x.rightShape = "fist" /\ stable
     THEN LET x1 == [x EXCEPT !.isExploding = FALSE,
                              !.isInClickMode = FALSE,
                              !.aggregationBlockedUntil = IF x.isInClickMode THEN 0 ELSE @]
          IN IF canAggregate(x1, now)
             THEN [x1 EXCEPT !.lastAggregationTime = now]
             ELSE x1
     ELSE [x EXCEPT !.isExploding = FALSE,
                    !.isInClickMode = FALSE,
                    !.aggregationBlockedUntil = IF x.isInClickMode THEN 0 ELSE @]

\* onResults(results) at time now with currentMode = 'explode' and no left hand
onResultsExplode(x, shape, now) ==
  LET x1 == [updateRightHandShape(x, shape) EXCEPT !.lastFrameTime = now]
  IN IF shape # Null THEN processExplodeMode(x1, now) ELSE x1

----------------------------------------------------------------------------
(* MechStateMachine (gestureController.ts 2380-3055): the record holds       *)
(* uiState, the two targets, currentList, lastGestureTime and whether a      *)
(* model is set.  update() writes only the two factors, which no handler     *)
(* reads, and is left out.                                                   *)

EXPLOSION_SPEED == (3 * FOne) \div 100
GESTURE_COOLDOWN == 300

MechViewState == <<"Assembled", "MajorExploded", "PartList", "PartDetailExploded">>

GestureType == {"OPEN_PALM", "FIST", "PINCH", "SWIPE_LEFT", "SWIPE_RIGHT", "POINTING", "NONE"}

\* mechConfig: hasChildren(partId)
hasChildren(p) == p # Null /\ Len(childrenMap(p)) > 0

\* new MechStateMachine(callbacks): createInitialUIState() and the field initialisers
MechConstructed ==
  [ state                 |-> "Assembled",
    currentMajorPart      |-> Null,
    currentSubPart        |-> Null,
    highlightedIndex      |-> 0,
    globalExplosionTarget |-> 0,
    partExplosionTarget   |-> 0,
    lastGestureTime       |-> 0,
    currentList           |-> <<>>,
    model                 |-> FALSE ]

\* init(model)
MechInit(m) ==
  [m EXCEPT !.model = TRUE, !.state = "Assembled", !.currentMajorPart = Null,
            !.currentSubPart = Null, !.highlightedIndex = 0,
            !.globalExplosionTarget = 0, !.partExplosionTarget = 0]

updateHighlight(m) ==
  IF ~m.model \/ Len(m.currentList) = 0 THEN m
  ELSE LET partId == m.currentList[m.highlightedIndex + 1]
       IN IF m.state = "MajorExploded"
          THEN [m EXCEPT !.currentMajorPart = partId]
          ELSE [m EXCEPT !.currentSubPart = partId]

enterState(m, state) ==
  IF ~m.model THEN m
  ELSE CASE state = "Assembled" ->
              [m EXCEPT !.currentMajorPart = Null, !.currentSubPart = Null,
                        !.highlightedIndex = 0, !.currentList = <<>>,
                        !.globalExplosionTarget = 0, !.partExplosionTarget = 0]
         [] state = "MajorExploded" ->
              [m EXCEPT !.currentList = majorParts, !.highlightedIndex = 0,
                        !.currentSubPart = Null, !.currentMajorPart = Null,
                        !.partExplosionTarget = 0]
         [] state = "PartList" ->
              IF m.currentMajorPart # Null
              THEN LET children == getChildParts(m.currentMajorPart)
                   IN [m EXCEPT !.currentList = children, !.highlightedIndex = 0,
                                !.currentSubPart =
                                   IF Len(children) > 0 THEN children[1] ELSE @]
              ELSE m
         [] OTHER ->
              IF m.currentSubPart # Null THEN updateHighlight(m) ELSE m

\* transitionTo(newState) of the MechStateMachine
MechTransitionTo(m, newState) ==
  IF m.state = newState THEN m
  ELSE enterState([m EXCEPT !.state = newState], newState)

canTriggerGesture(m, now) == now - m.lastGestureTime > GESTURE_COOLDOWN

handleOpenPalm(m) ==
  CASE m.state = "Assembled" ->
         LET m1 == [m EXCEPT !.globalExplosionTarget = Min(FOne, @ + EXPLOSION_SPEED)]
         IN IF m1.globalExplosionTarget > FOne \div 10
            THEN MechTransitionTo(m1, "MajorExploded") ELSE m1
    [] m.state = "MajorExploded" ->
         [m EXCEPT !.globalExplosionTarget = Min(FOne, @ + EXPLOSION_SPEED)]
    [] OTHER ->
         [m EXCEPT !.partExplosionTarget = Min(FOne, @ + EXPLOSION_SPEED)]

handleFist(m) ==
  CASE m.state = "Assembled" -> m
    [] m.state = "MajorExploded" ->
         LET m1 == [m EXCEPT !.globalExplosionTarget = Max(0, @ - EXPLOSION_SPEED)]
         IN IF m1.globalExplosionTarget < FOne \div 20
            THEN MechTransitionTo(m1, "Assembled") ELSE m1
    [] m.state = "PartList" ->
         IF m.partExplosionTarget > FOne \div 100
         THEN [m EXCEPT !.partExplosionTarget = Max(0, @ - EXPLOSION_SPEED)]
         ELSE MechTransitionTo(m, "MajorExploded")
    [] OTHER ->
         IF m.partExplosionTarget > FOne \div 100
         THEN [m EXCEPT !.partExplosionTarget = Max(0, @ - EXPLOSION_SPEED)]
         ELSE MechTransitionTo(m, "PartList")

\* a pinch that opens the part list of a major part without looking for children
handlePinchAnyPart(m) ==
  CASE m.state = "Assembled" -> m
    [] m.state = "MajorExploded" ->
         IF Len(m.currentList) > 0
         THEN MechTransitionTo([m EXCEPT !.currentMajorPart =
                                   m.currentList[m.highlightedIndex + 1]], "PartList")
         ELSE m
    [] m.state = "PartList" ->
         IF Len(m.currentList) > 0
         THEN MechTransitionTo([m EXCEPT !.currentSubPart =
                                   m.currentList[m.highlightedIndex + 1]],
                               "PartDetailExploded")
         ELSE m
    [] OTHER ->
         [m EXCEPT !.partExplosionTarget = IF @ > FOne \div 2 THEN 0 ELSE FOne]

handlePinch(m) ==
  CASE m.state = "Assembled" -> m
    [] m.state = "MajorExploded" ->
         IF Len(m.currentList) > 0
         THEN LET selectedId == m.currentList[m.highlightedIndex + 1]
                  m1 == [m EXCEPT !.currentMajorPart = selectedId]
              IN IF hasChildren(selectedId) THEN MechTransitionTo(m1, "PartList") ELSE m1
         ELSE m
    [] m.state = "PartList" ->
         IF Len(m.currentList) > 0
         THEN MechTransitionTo([m EXCEPT !.currentSubPart =
                                   m.currentList[m.highlightedIndex + 1]],
                               "PartDetailExploded")
         ELSE m
    [] OTHER ->
         [m EXCEPT !.partExplosionTarget = IF @ > FOne \div 2 THEN 0 ELSE FOne]

setHighlightedIndex(m, index) ==
  IF index < 0 \/ index >= Len(m.currentList) THEN m
  ELSE updateHighlight([m EXCEPT !.highlightedIndex = index])

handleSwipe(m, direction) ==
  IF Len(m.currentList) = 0 THEN m
  ELSE LET stepped == m.highlightedIndex + (IF direction = "right" THEN 1 ELSE -1)
           newIndex == IF stepped < 0 THEN Len(m.currentList) - 1
                       ELSE IF stepped >= Len(m.currentList) THEN 0 ELSE stepped
       IN setHighlightedIndex(m, newIndex)

\* handleGesture(gesture, gestureJustStarted) with performance.now() = now
handleGesture(m, gesture, gestureJustStarted, now) ==
  IF ~m.model THEN m
  ELSE CASE gesture = "OPEN_PALM" -> handleOpenPalm(m)
         [] gesture = "FIST" -> handleFist(m)
         [] gesture = "PINCH" ->
              IF gestureJustStarted /\ canTriggerGesture(m, now)
              THEN [handlePinch(m) EXCEPT !.lastGestureTime = now] ELSE m
         [] gesture = "SWIPE_LEFT" ->
              IF canTriggerGesture(m, now)
              THEN [handleSwipe(m, "left") EXCEPT !.lastGestureTime = now] ELSE m
         [] gesture = "SWIPE_RIGHT" ->
              IF canTriggerGesture(m, now)
              THEN [handleSwipe(m, "right") EXCEPT !.lastGestureTime = now] ELSE m
         [] OTHER -> m

selectCurrentHighlight(m) ==
  IF Len(m.currentList) = 0 THEN m
  ELSE LET selectedId == m.currentList[m.highlightedIndex + 1]
       IN CASE m.state = "MajorExploded" ->
                 LET m1 == [m EXCEPT !.currentMajorPart = selectedId]
                 IN IF hasChildren(selectedId) THEN MechTransitionTo(m1, "PartList") ELSE m1
            [] m.state = "PartList" ->
                 MechTransitionTo([m EXCEPT !.currentSubPart = selectedId],
                                  "PartDetailExploded")
            [] OTHER -> m

\* reset() of the MechStateMachine
MechReset(m) ==
  [MechTransitionTo(m, "Assembled") EXCEPT !.globalExplosionTarget = 0,
                                           !.partExplosionTarget = 0]

\* dispose() of the MechStateMachine
MechDispose(m) == [m EXCEPT !.model = FALSE, !.currentList = <<>>]

----------------------------------------------------------------------------
(* KeyboardController (keyboardController.ts) and the window it listens on.  *)
(* The window is a record: its event listeners, each <<type, function>>, and *)
(* the number of function objects Function.prototype.bind has made so far;   *)
(* every call of bind returns a new function object, here the next number.   *)
(* add/removeEventListener tell listeners apart by type and function object. *)

WindowInit == [listeners |-> {}, bound |-> 0]

\* this.onKeyDown.bind(this) / this.onKeyUp.bind(this): the window after the call
\* and the new function object
bind(w) == [w EXCEPT !.bound = @ + 1]
bound(w) == w.bound

addEventListener(w, type, fn) == [w EXCEPT !.listeners = @ \cup {<<type, fn>>}]
removeEventListener(w, type, fn) == [w EXCEPT !.listeners = @ \ {<<type, fn>>}]

\* the listeners of an event type
ListenersOn(w, type) == {l \in w.listeners : l[1] = type}

\* bindEvents()
bindEvents(w) ==
  LET w1 == bind(w)
      w2 == bind(addEventListener(w1, "keydown", bound(w1)))
  IN addEventListener(w2, "keyup", bound(w2))

\* dispose(): the window it leaves
disposeWindow(w) ==
  LET w1 == bind(w)
      w2 == bind(removeEventListener(w1, "keydown", bound(w1)))
  IN removeEventListener(w2, "keyup", bound(w2))

\* new KeyboardController(callbacks)
KbInit == [keysPressed |-> {}, enabled |-> TRUE]

\* onKeyDown(event): the callback it invokes ("none": no callback)
onKeyDownCallback(k, key) ==
  IF ~k.enabled THEN "none"
  ELSE LET isNewKey == key \notin k.keysPressed
       IN CASE key \in {"a", "s"} -> "onExplosionChange"
            [] key \in {"arrowup", "arrowdown"} ->
                 IF isNewKey THEN "onMaterialModeChange" ELSE "none"
            [] key \in {"arrowleft", "arrowright"} ->
                 IF isNewKey THEN "onNavigateLeftRight" ELSE "none"
            [] key = "escape" -> IF isNewKey THEN "onEscape" ELSE "none"
            [] key = "enter" -> IF isNewKey THEN "onEnter" ELSE "none"
            [] OTHER -> "none"

\* onKeyDown(event): the controller it leaves
onKeyDown(k, key) ==
  IF ~k.enabled THEN k ELSE [k EXCEPT !.keysPressed = @ \cup {key}]

onKeyUp(k, key) == [k EXCEPT !.keysPressed = @ \ {key}]

\* update(): the callback it invokes
KbUpdateCallback(k) ==
  IF k.enabled /\ k.keysPressed \cap {"a", "s"} # {} THEN "onExplosionChange" ELSE "none"

setEnabled(k, enabled) ==
  [k EXCEPT !.enabled = enabled, !.keysPressed = IF enabled THEN @ ELSE {}]

\* dispose(): the controller it leaves
KbDispose(k) == [k EXCEPT !.keysPressed = {}]

----------------------------------------------------------------------------
(* The state *)

VARIABLES
  sm,        \* the SimpleStateMachine
  smCall,    \* the last command on sm, if no update() tick followed it: [op, arg, ret]
  smBefore,  \* sm as it was when that command was called (SsmInit if there is none)
  smPrev,    \* the command before it, if no tick came between: [op, arg, idx, sel]
  navRun,    \* length of the current run of navigateLeftRight('right') calls in PartView
  navStart,  \* <<currentPartIndex, selectedMajorPart>> when that run began
  smFrame,   \* update() ticks since the last command, counted up to EarlyTicks + 1
  smIdle,    \* the last update() tick changed nothing
  smEarly,   \* commands that interrupted a running animation
  smCmds,    \* commands issued so far
  ec,        \* the ExplodeController
  ecCall,    \* the last call on ec, if no update() tick followed it
  ecFrame,   \* update() ticks since the last call, counted up to EarlyTicks + 1
  ecIdle,    \* the last update() tick changed neither factor
  ecCalls,   \* calls made on ec so far
  ecBefore,  \* ec as the last update() tick found it (EcInit if a call followed it)
  sel,       \* the SelectionController
  selCall,   \* the last call on sel: [op, arg]
  selBefore, \* sel as it was when that call was made
  selPrev,   \* the call before it: [op, arg, selected]
  mouse,     \* the SimpleMouseController
  clock,     \* Date.now(), in ms
  gc,        \* the GestureController
  gcCall,    \* the last call on gc and how it found gc: [op, arg, at, mode, locked, due]
  gcGesture, \* the last two mode changes made by setMode(mode, true)
  gcTimer,   \* when the pending setTimeout of a selection is due, 0 if none
  gcEvents,  \* events on gc so far
  xm,        \* the GestureController in explode mode
  xmCall,    \* the last event on xm: [op, shape, aggregated, prevAggregationTime]
  xmEvents,  \* events on xm so far
  mech,      \* the MechStateMachine
  mechCall,  \* the last call on mech: [op, arg, now, from, partTarget]
  mechEvents, \* calls on mech so far
  kb,        \* the KeyboardController
  win,       \* the window: [listeners, bound]
  kbCall,    \* the last event: [op, key, called, disposed]
  kbEvents   \* events on kb and win so far

smVars == <<sm, smCall, smBefore, smPrev, navRun, navStart, smFrame, smIdle, smEarly, smCmds>>
ecVars == <<ec, ecCall, ecFrame, ecIdle, ecCalls, ecBefore>>
selVars == <<sel, selCall, selBefore, selPrev>>
mouseVars == <<mouse, clock>>
gcVars == <<gc, gcCall, gcGesture, gcTimer, gcEvents>>
xmVars == <<xm, xmCall, xmEvents>>
mechVars == <<mech, mechCall, mechEvents>>
kbVars == <<kb, win, kbCall, kbEvents>>
otherVars == <<xmVars, mechVars, kbVars>>
vars == <<smVars, ecVars, selVars, mouseVars, gcVars, otherVars>>

NoCall == [op |-> "none"]

\* navStart while no run of navigateLeftRight('right') calls is under way
NoNavStart == <<-1, Null>>

\* Date.now() when explode mode is entered
XmStart == 10000

\* xmCall before any frame in explode mode
NoXmCall == [op |-> "none", shape |-> Null, aggregated |-> FALSE, prevAggregationTime |-> 0]

\* performance.now() when the MechStateMachine is constructed
MechStart == 1000

\* mechCall before any call on the MechStateMachine
NoMechCall ==
  [op |-> "none", arg |-> Null, now |-> MechStart, from |-> "Assembled", partTarget |-> 0]

\* kbCall before any event on the KeyboardController
NoKbCall == [op |-> "none", key |-> "none", called |-> "none", disposed |-> FALSE]

\* gcCall before any event on the GestureController
NoGcCall ==
  [op |-> "none", arg |-> Null, at |-> 0, mode |-> "watch", locked |-> FALSE, due |-> FALSE]

\* gcGesture while no gesture has changed the mode
NoGesture ==
  [on |-> FALSE, at |-> 0, released |-> FALSE,
   prevOn |-> FALSE, prevAt |-> 0, prevReleased |-> FALSE]

----------------------------------------------------------------------------
(* Bounds of the environment *)

\* Date.now() at the start of a run, in ms
ClockStart == 1000

\* commands issued to the SimpleStateMachine in one run; an uninterrupted run of
\* navigateLeftRight calls inside PartView counts as one command
MaxCmds == 4

\* a command may interrupt a running animation during its first EarlyTicks frames;
\* otherwise commands come right after one another or when the animation is at rest
EarlyTicks == 1

\* such interruptions per run
MaxEarly == 1

\* the deltas adjustExplosion is called with: the keyboard's 3 * explosionSpeed per
\* key press, a larger nudge, and nudges larger than the whole range
Deltas == {-(3 * FOne) \div 2, (6 * FOne) \div 100, FOne \div 5, (3 * FOne) \div 2}

\* the ids setHoveredPartId is called with: none, a major part, a child part
HoverIds == {Null, "Leftarm", "Lefthand"}

----------------------------------------------------------------------------
(* SimpleStateMachine: the commands and the frame tick *)

\* update() would change nothing: both factors within the threshold, no transition running
SmAtRest(s) == update(s) = s

\* a command can be issued now: right after another command, once a frame has passed
\* without any change, or (MaxEarly times) in the first EarlyTicks frames of an animation
SmCommandSlot ==
  \/ smCall # NoCall
  \/ smIdle
  \/ smFrame <= EarlyTicks /\ smEarly < MaxEarly

\* what every command records; cost is what it takes from the MaxCmds budget
SmRecord(op, arg, ret, cost) ==
  /\ SmCommandSlot
  /\ smCmds + cost <= MaxCmds
  /\ smCmds' = smCmds + cost
  /\ smCall' = [op |-> op, arg |-> arg, ret |-> ret]
  /\ smBefore' = sm
  /\ smPrev' = IF smCall = NoCall THEN NoCall
               ELSE [op |-> smCall.op, arg |-> smCall.arg,
                     idx |-> smBefore.currentPartIndex, sel |-> smBefore.selectedMajorPart]
  /\ smFrame' = 0
  /\ smIdle' = FALSE
  /\ smEarly' = IF smCall = NoCall /\ ~smIdle THEN smEarly + 1 ELSE smEarly
  /\ UNCHANGED <<ecVars, selVars, mouseVars, gcVars, otherVars>>

NoNavRun == /\ navRun' = 0
            /\ navStart' = NoNavStart

SmAdjustExplosion ==
  \E delta \in Deltas :
    /\ SmRecord("adjustExplosion", delta, Null, 1)
    /\ sm' = adjustExplosion(sm, delta)
    /\ NoNavRun

SmSetHoveredPartId ==
  \E partId \in HoverIds :
    /\ SmRecord("setHoveredPartId", partId, Null, 1)
    /\ sm' = setHoveredPartId(sm, partId)
    /\ NoNavRun

SmSelectHoveredPart ==
  /\ SmRecord("selectHoveredPart", sm.hoveredPart, selectHoveredPartResult(sm), 1)
  /\ sm' = selectHoveredPartState(sm)
  /\ NoNavRun

SmNavigateLeftRight ==
  \E direction \in {"left", "right"} :
    /\ SmRecord("navigateLeftRight", direction, Null,
                IF sm.state = "PartView" /\ smCall.op = "navigateLeftRight" THEN 0 ELSE 1)
    /\ sm' = navigateLeftRight(sm, direction)
    /\ IF direction = "right" /\ sm.state = "PartView"
       THEN IF navRun \in 1..(Len(majorParts) - 1)
            THEN navRun' = navRun + 1 /\ navStart' = navStart
            ELSE navRun' = 1 /\ navStart' = <<sm.currentPartIndex, sm.selectedMajorPart>>
       ELSE NoNavRun

SmGoBack ==
  /\ SmRecord("goBack", Null, Null, 1)
  /\ sm' = goBack(sm)
  /\ NoNavRun

SmReset ==
  /\ SmRecord("reset", Null, Null, 1)
  /\ sm' = reset(sm)
  /\ NoNavRun

\* one frame of the host loop: stateMachine.update(deltaTime)
SmUpdate ==
  /\ sm' = update(sm)
  /\ smCall' = NoCall
  /\ smBefore' = SsmInit
  /\ smPrev' = NoCall
  /\ NoNavRun
  /\ smFrame' = Min(smFrame + 1, EarlyTicks + 1)
  /\ smIdle' = (sm' = sm)
  /\ UNCHANGED <<smEarly, smCmds, ecVars, selVars, mouseVars, gcVars, otherVars>>

SmNext ==
  \/ SmAdjustExplosion
  \/ SmSetHoveredPartId
  \/ SmSelectHoveredPart
  \/ SmNavigateLeftRight
  \/ SmGoBack
  \/ SmReset
  \/ SmUpdate

Init ==
  /\ sm = SsmInit
  /\ smCall = NoCall
  /\ smBefore = SsmInit
  /\ smPrev = NoCall
  /\ navRun = 0
  /\ navStart = NoNavStart
  /\ smFrame = 0
  /\ smIdle = TRUE
  /\ smEarly = 0
  /\ smCmds = 0
  /\ ec = EcInit
  /\ ecCall = NoCall
  /\ ecFrame = 0
  /\ ecIdle = TRUE
  /\ ecCalls = 0
  /\ ecBefore = EcInit
  /\ sel = SelInit
  /\ selCall = NoCall
  /\ selBefore = SelInit
  /\ selPrev = NoCall
  /\ mouse = MouseInit
  /\ clock = ClockStart
  /\ gc = GcInit(ClockStart)
  /\ gcCall = NoGcCall
  /\ gcGesture = NoGesture
  /\ gcTimer = 0
  /\ gcEvents = 0
  /\ xm = [XmInit EXCEPT !.lastFrameTime = XmStart]
  /\ xmCall = NoXmCall
  /\ xmEvents = 0
  /\ mech = MechConstructed
  /\ mechCall = NoMechCall
  /\ mechEvents = 0
  /\ kb = KbInit
  /\ win = bindEvents(WindowInit)
  /\ kbCall = NoKbCall
  /\ kbEvents = 0

\* the SimpleStateMachine under its commands and the host loop's update() ticks
Spec == Init /\ [][SmNext]_vars

\* what an update() tick can change
smLive == <<sm, smCall, smIdle>>

\* weak fairness of the tick, WF_smLive(SmUpdate), with ENABLED <<SmUpdate>>_smLive
\* written out: a tick changes none of smLive exactly when no command has been issued
\* since a tick that changed nothing
SmTickFairness == []<>(smIdle /\ smCall = NoCall) \/ []<><<SmUpdate>>_smLive

\* the same machine under a host loop that keeps calling update(): animate() runs on
\* every animation frame, so a tick that would change something is eventually taken
LiveSpec == Spec /\ SmTickFairness

----------------------------------------------------------------------------
(* SimpleStateMachine: longer runs, one command per settled animation *)

\* commands issued in one such run
MaxSettledCmds == 6

\* the deltas of these runs: all the way up, all the way down
SettledDeltas == {-(3 * FOne) \div 2, (3 * FOne) \div 2}

\* the ids hovered in these runs: nothing, two major parts with children, a child part
SettledHoverIds == {Null, "Leftarm", "Rightarm", "Righthand"}

\* what every command of such a run records: it is issued only once a frame has passed
\* without any change
StRecord(op, arg, ret) ==
  /\ smIdle
  /\ smCall = NoCall
  /\ smCmds < MaxSettledCmds
  /\ smCmds' = smCmds + 1
  /\ smCall' = [op |-> op, arg |-> arg, ret |-> ret]
  /\ smBefore' = sm
  /\ smPrev' = NoCall
  /\ smFrame' = 0
  /\ smIdle' = FALSE
  /\ NoNavRun
  /\ UNCHANGED <<smEarly, ecVars, selVars, mouseVars, gcVars, otherVars>>

StAdjustExplosion ==
  \E delta \in SettledDeltas :
    /\ StRecord("adjustExplosion", delta, Null)
    /\ sm' = adjustExplosion(sm, delta)

StSetHoveredPartId ==
  \E partId \in SettledHoverIds :
    /\ StRecord("setHoveredPartId", partId, Null)
    /\ sm' = setHoveredPartId(sm, partId)

StSelectHoveredPart ==
  /\ StRecord("selectHoveredPart", sm.hoveredPart, selectHoveredPartResult(sm))
  /\ sm' = selectHoveredPartState(sm)

StNavigateLeftRight ==
  \E direction \in {"left", "right"} :
    /\ StRecord("navigateLeftRight", direction, Null)
    /\ sm' = navigateLeftRight(sm, direction)

StNavigate ==
  \E direction \in {"up", "down"} :
    /\ StRecord("navigate", direction, Null)
    /\ sm' = navigate(sm, direction)

StGoBack ==
  /\ StRecord("goBack", Null, Null)
  /\ sm' = goBack(sm)

StReset ==
  /\ StRecord("reset", Null, Null)
  /\ sm' = reset(sm)

StNext ==
  \/ StAdjustExplosion
  \/ StSetHoveredPartId
  \/ StSelectHoveredPart
  \/ StNavigateLeftRight
  \/ StNavigate
  \/ StGoBack
  \/ StReset
  \/ SmUpdate

\* the SimpleStateMachine under commands that wait for the animation to settle
SettledSpec == Init /\ [][StNext]_vars

----------------------------------------------------------------------------
(* The wiring of main.ts: keyboard and mouse callbacks on the state machine *)

\* state machine calls made through the callbacks in one run
MaxWiredCmds == 5

\* the time after which no click is explored
MaxClock == 1600

\* ms between a click and the event before it: inside and outside doubleClickThreshold
ClickGaps == {100, 400}

\* what the ray of a mouse move hits: nothing, or one of two major parts
WiredHits == {Null, "Leftarm", "Rightarm"}

\* input events are handled between frames, here once the animation has settled
WdSlot == smIdle /\ smCall = NoCall

\* SimpleStateMachine.getInteractableParts(), as the Set the mouse controller makes
\* of it
getInteractableParts(s) ==
  IF s.state = "PartView" /\ s.selectedMajorPart # Null
  THEN {s.selectedMajorPart} \cup ChildrenOf(s.selectedMajorPart)
         \cup (MajorPartId \ {s.selectedMajorPart})
  ELSE MajorPartId

\* The handlers that invoke onStateChange or onPartListChange.  transitionTo
\* invokes onStateChange (and onPartListChange on entering PartView) unless the
\* state is the one it already has; selectPart invokes onPartListChange; so does
\* navigateInternal in the exploded view.
transitionToNotifies(s, newState) == s.state # newState

adjustExplosionNotifies(s, delta) ==
  /\ s.state # "PartView"
  /\ LET target == clamp01(s.globalExplosionTarget + delta)
     IN \/ target > FOne \div 10 /\ s.state = "Assembled"
        \/ target < FOne \div 20 /\ s.state = "Exploded"

selectHoveredPartNotifies(s) ==
  /\ s.hoveredPart # Null
  /\ IF s.state = "Exploded" \/ s.globalExplosion > FOne \div 10
     THEN s.hoveredPart \in MajorPartId /\ transitionToNotifies(s, "PartView")
     ELSE s.state = "PartView" /\ s.hoveredPart \in MajorPartId

navigateInternalNotifies(s) == s.state = "PartView" \/ s.state = "Exploded"

goBackNotifies(s) == s.state = "PartView" /\ transitionToNotifies(s, "Assembled")

\* handleStateChange / handlePartListChange of main.ts: the mouse controller is
\* given the state machine's interactable parts.  In every handler the state and
\* the selected part are written before the callback is invoked and not after it,
\* so the callback reads them as the handler leaves them (s).
handlePartsChange(m, s, notified) ==
  IF notified THEN setInteractableParts(m, getInteractableParts(s)) ELSE m

\* what every callback that reaches the state machine records
WdRecord(op, arg, ret) ==
  /\ WdSlot
  /\ smCmds < MaxWiredCmds
  /\ smCmds' = smCmds + 1
  /\ smCall' = [op |-> op, arg |-> arg, ret |-> ret]
  /\ smBefore' = sm
  /\ smPrev' = NoCall
  /\ smFrame' = 0
  /\ smIdle' = FALSE
  /\ NoNavRun
  /\ UNCHANGED <<smEarly, ecVars, selVars, gcVars, otherVars>>

\* keys A / S: onExplosionChange -> adjustExplosion(delta)
WdKeyExplosion ==
  \E delta \in SettledDeltas :
    /\ WdRecord("adjustExplosion", delta, Null)
    /\ sm' = adjustExplosion(sm, delta)
    /\ mouse' = handlePartsChange(mouse, sm', adjustExplosionNotifies(sm, delta))
    /\ UNCHANGED clock

\* arrow keys: onNavigateLeftRight -> navigateLeftRight(direction)
WdKeyNavigateLeftRight ==
  \E direction \in {"left", "right"} :
    /\ WdRecord("navigateLeftRight", direction, Null)
    /\ sm' = navigateLeftRight(sm, direction)
    /\ mouse' = handlePartsChange(mouse, sm', navigateInternalNotifies(sm))
    /\ UNCHANGED clock

\* Escape: onEscape -> goBack()
WdKeyEscape ==
  /\ WdRecord("goBack", Null, Null)
  /\ sm' = goBack(sm)
  /\ mouse' = handlePartsChange(mouse, sm', goBackNotifies(sm))
  /\ UNCHANGED clock

\* Enter: onEnter -> selectHoveredPart()
WdKeyEnter ==
  /\ WdRecord("selectHoveredPart", sm.hoveredPart, selectHoveredPartResult(sm))
  /\ sm' = selectHoveredPartState(sm)
  /\ mouse' = handlePartsChange(mouse, sm', selectHoveredPartNotifies(sm))
  /\ UNCHANGED clock

\* a mouse move that changes the hovered part: onHover -> setHoveredPartId(partId)
WdMouseMove ==
  \E hit \in WiredHits :
    /\ onMouseMoveReportsHover(mouse, hit)
    /\ WdRecord("setHoveredPartId", hit, Null)
    /\ sm' = setHoveredPartId(sm, hit)
    /\ mouse' = onMouseMove(mouse, hit)
    /\ UNCHANGED clock

\* a click; the second of two quick clicks over a part: onDoubleClick(partId) ->
\* selectHoveredPart(), the reported partId being dropped by the callback
WdClick ==
  \E gap \in ClickGaps :
    /\ clock + gap <= MaxClock
    /\ clock' = clock + gap
    /\ IF onClickReportsDoubleClick(mouse, clock')
       THEN /\ WdRecord("onDoubleClick", mouse.hoveredPartId, selectHoveredPartResult(sm))
            /\ sm' = selectHoveredPartState(sm)
            /\ mouse' = handlePartsChange(onClick(mouse, clock'), sm',
                                          selectHoveredPartNotifies(sm))
       ELSE /\ WdSlot
            /\ mouse' = onClick(mouse, clock')
            /\ UNCHANGED <<smVars, ecVars, selVars, gcVars, otherVars>>

WdNext ==
  \/ WdKeyExplosion
  \/ WdKeyNavigateLeftRight
  \/ WdKeyEscape
  \/ WdKeyEnter
  \/ WdMouseMove
  \/ WdClick
  \/ SmUpdate

\* the state machine behind the keyboard and mouse controllers, as main.ts wires them
WiredSpec == Init /\ [][WdNext]_vars

----------------------------------------------------------------------------
(* The GestureController under hand-tracking frames, clicks on the mode     *)
(* buttons and the timer of a selection                                     *)

\* events on the GestureController in one run; STABLE_FRAMES frames in a row that
\* show the same left hand count as one event
MaxGcEvents == 6

\* Date.now() stays below this
MaxGcClock == 70000

\* ms between two frames while the camera runs
FramePeriod == 200

\* ms between a frame and the one before it
GcFrameGaps == {600}

\* ms the tracking may pause between two frames (setEnabled, a hidden page)
GcPauses == {5000, 59000}

\* what a frame shows of the left hand, Null if it is not in the picture
LeftInputs == {Null, "two", "three"}

\* what a frame shows of the right hand
RightInputs == {Null, "interact", "select"}

\* checkLeftHandModeSwitch(now) of this frame changes the mode
gestureSwitches(g, left, now) ==
  onResultsBeforeRightHand(g, left, now).currentMode
    # checkAutoReset(updateHandShapes(g, left), now).currentMode

\* the record of the gesture-initiated mode changes after an event: at tells when
\* a gesture last changed the mode, released whether a setMode(mode, false) has
\* changed the mode since, prev* the same of the gesture change before it
GestureNoted(old, switched, releases, now) ==
  IF switched
  THEN [on |-> TRUE, at |-> now, released |-> FALSE,
        prevOn |-> old.on, prevAt |-> old.at,
        prevReleased |-> old.released \/ releases]
  ELSE IF releases THEN [old EXCEPT !.released = TRUE] ELSE old

\* one frame on the pair of the controller and that record
FrameOn(st, left, right, now) ==
  [g |-> onResults(st.g, left, right, now),
   gesture |-> GestureNoted(st.gesture, gestureSwitches(st.g, left, now),
                            autoResetDue(updateHandShapes(st.g, left), now), now)]

\* n frames, FramePeriod apart, that show the same left hand and no right hand
RECURSIVE FramesOn(_, _, _, _)
FramesOn(st, left, now, n) ==
  IF n = 0 THEN st
  ELSE FramesOn(FrameOn(st, left, Null, now + FramePeriod), left, now + FramePeriod, n - 1)

\* gcCall of a call that found the controller as g at time now
GcCalled(op, arg, g, now) ==
  [op |-> op, arg |-> arg, at |-> now, mode |-> g.currentMode,
   locked |-> (g.modeSwitchByGesture /\ now - g.lastModeChangeTime < MODE_LOCK_DURATION),
   due |-> autoResetDue(g, now)]

GcRecord ==
  /\ gcEvents < MaxGcEvents
  /\ gcEvents' = gcEvents + 1
  /\ UNCHANGED <<smVars, ecVars, selVars, mouse, otherVars>>

\* MediaPipe delivers a frame: onResults(results)
GcFrame ==
  \E gap \in GcFrameGaps, left \in LeftInputs, right \in RightInputs :
    LET now == clock + gap
        st == FrameOn([g |-> gc, gesture |-> gcGesture], left, right, now)
    IN /\ gcTimer = 0
       /\ now <= MaxGcClock
       /\ GcRecord
       /\ gcCall' = GcCalled("onResults", left, gc, now)
       /\ clock' = now
       /\ gc' = st.g
       /\ gcGesture' = st.gesture
       /\ gcTimer' = IF rightHandSelects(onResultsBeforeRightHand(gc, left, now), right)
                     THEN now + SelectWatchDelay ELSE 0

\* the left hand holds a shape through STABLE_FRAMES frames
GcHold ==
  \E left \in LeftInputs \ {Null} :
    LET now == clock + STABLE_FRAMES * FramePeriod
        last == FramesOn([g |-> gc, gesture |-> gcGesture], left, clock, STABLE_FRAMES - 1)
        st == FrameOn(last, left, Null, now)
    IN /\ gcTimer = 0
       /\ now <= MaxGcClock
       /\ GcRecord
       /\ gcCall' = GcCalled("onResults", left, last.g, now)
       /\ clock' = now
       /\ gc' = st.g
       /\ gcGesture' = st.gesture
       /\ gcTimer' = 0

\* the first frame after a pause of the tracking, no hand in the picture yet
GcResume ==
  \E gap \in GcPauses :
    LET now == clock + gap
        st == FrameOn([g |-> gc, gesture |-> gcGesture], Null, Null, now)
    IN /\ gcTimer = 0
       /\ now <= MaxGcClock
       /\ GcRecord
       /\ gcCall' = GcCalled("onResults", Null, gc, now)
       /\ clock' = now
       /\ gc' = st.g
       /\ gcGesture' = st.gesture
       /\ gcTimer' = 0

\* a click on a mode button of the page: setMode(mode, false)
GcClick ==
  \E mode \in GestureMode :
    /\ GcRecord
    /\ gcCall' = GcCalled("setMode", mode, gc, clock)
    /\ gc' = setMode(gc, mode, FALSE, clock)
    /\ gcGesture' = GestureNoted(gcGesture, FALSE, gc'.currentMode # gc.currentMode, clock)
    /\ UNCHANGED <<clock, gcTimer>>

\* the setTimeout of a selection fires: setMode('watch', false)
GcTimeout ==
  /\ gcTimer # 0
  /\ GcRecord
  /\ gcCall' = GcCalled("timeout", "watch", gc, gcTimer)
  /\ clock' = gcTimer
  /\ gc' = setMode(gc, "watch", FALSE, gcTimer)
  /\ gcGesture' = GestureNoted(gcGesture, FALSE, gc'.currentMode # gc.currentMode, gcTimer)
  /\ gcTimer' = 0

GcNext == GcFrame \/ GcHold \/ GcResume \/ GcClick \/ GcTimeout

GestureSpec == Init /\ [][GcNext]_vars

----------------------------------------------------------------------------
(* GestureController in explode mode: the frames of the right hand *)

\* events (frames, held shapes) in one run
MaxXmEvents == 6

\* ms between a frame and the one before it: at the frame rate, and past each of
\* EXPLOSION_COOLDOWN and AGGREGATION_BLOCK_TIME
XmFrameGaps == {FramePeriod, 1600, 3200}

\* what the right hand shows in a frame (Null: no right hand in the frame)
XmInputs == RightShapes \cup {Null}

\* n frames FramePeriod apart, the first at time now, all showing the same shape
RECURSIVE XmFramesOn(_, _, _, _)
XmFramesOn(x, shape, now, n) ==
  IF n = 0 THEN x
  ELSE XmFramesOn(onResultsExplode(x, shape, now), shape, now + FramePeriod, n - 1)

XmRecord(op, shape) ==
  /\ xmEvents < MaxXmEvents
  /\ xmEvents' = xmEvents + 1
  /\ xmCall' = [op |-> op, shape |-> shape,
                aggregated |-> xm'.lastAggregationTime # xm.lastAggregationTime,
                prevAggregationTime |-> xm.lastAggregationTime]
  /\ UNCHANGED <<smVars, ecVars, selVars, mouseVars, gcVars, mechVars, kbVars>>

\* MediaPipe delivers a frame: onResults(results)
XmFrame ==
  \E gap \in XmFrameGaps, shape \in XmInputs :
    /\ xm' = onResultsExplode(xm, shape, xm.lastFrameTime + gap)
    /\ XmRecord("onResults", shape)

\* the right hand holds a shape through STABLE_FRAMES frames
XmHold ==
  \E shape \in RightShapes :
    /\ xm' = XmFramesOn(xm, shape, xm.lastFrameTime + FramePeriod, STABLE_FRAMES)
    /\ XmRecord("hold", shape)

XmNext == XmFrame \/ XmHold

\* the GestureController in explode mode, frame after frame
ExplodeSpec == Init /\ [][XmNext]_vars

----------------------------------------------------------------------------
(* MechStateMachine: the gestures and the other public calls *)

\* calls on the MechStateMachine in one run
MaxMechEvents == 11

\* ms between a call and the one before it: inside and outside GESTURE_COOLDOWN
MechGaps == {200, 400}

\* the gestures handleGesture is called with (it ignores the others)
MechGestures == {"OPEN_PALM", "FIST", "PINCH", "SWIPE_LEFT", "SWIPE_RIGHT"}

MsRecord(op, arg, now) ==
  /\ mechEvents < MaxMechEvents
  /\ mechEvents' = mechEvents + 1
  /\ mechCall' = [op |-> op, arg |-> arg, now |-> now, from |-> mech.state,
                  partTarget |-> mech.partExplosionTarget]
  /\ UNCHANGED <<smVars, ecVars, selVars, mouseVars, gcVars, xmVars, kbVars>>

MsInit ==
  /\ ~mech.model
  /\ mech' = MechInit(mech)
  /\ MsRecord("init", Null, mechCall.now)

MsHandleGesture ==
  \E gesture \in MechGestures, gap \in MechGaps :
  \E gestureJustStarted \in (IF gesture = "PINCH" THEN BOOLEAN ELSE {FALSE}) :
    /\ mech' = handleGesture(mech, gesture, gestureJustStarted, mechCall.now + gap)
    /\ MsRecord("handleGesture", gesture, mechCall.now + gap)

MsSelectCurrentHighlight ==
  /\ mech' = selectCurrentHighlight(mech)
  /\ MsRecord("selectCurrentHighlight", Null, mechCall.now)

MsReset ==
  /\ mech' = MechReset(mech)
  /\ MsRecord("reset", Null, mechCall.now)

MsDispose ==
  /\ mech.model
  /\ mech' = MechDispose(mech)
  /\ MsRecord("dispose", Null, mechCall.now)

MsNext == MsInit \/ MsHandleGesture \/ MsSelectCurrentHighlight \/ MsReset \/ MsDispose

\* the MechStateMachine under gestures
MechSpec == Init /\ [][MsNext]_vars

----------------------------------------------------------------------------
(* KeyboardController: key events on the window and the public calls *)

\* events in one run
MaxKbEvents == 5

\* the keys pressed and released
Keys == {"a", "arrowleft", "escape"}

\* kbCall.disposed: dispose() has been called
KbRecord(op, key, called, disposed) ==
  /\ kbEvents < MaxKbEvents
  /\ kbEvents' = kbEvents + 1
  /\ kbCall' = [op |-> op, key |-> key, called |-> called, disposed |-> disposed]
  /\ UNCHANGED <<smVars, ecVars, selVars, mouseVars, gcVars, xmVars, mechVars>>

\* the window dispatches a keydown event to its keydown listeners
KbKeyDown ==
  \E key \in Keys :
    LET heard == ListenersOn(win, "keydown") # {}
    IN /\ kb' = IF heard THEN onKeyDown(kb, key) ELSE kb
       /\ KbRecord("keydown", key,
                   IF heard THEN onKeyDownCallback(kb, key) ELSE "none", kbCall.disposed)
       /\ UNCHANGED win

\* the window dispatches a keyup event to its keyup listeners
KbKeyUp ==
  \E key \in Keys :
    /\ kb' = IF ListenersOn(win, "keyup") # {} THEN onKeyUp(kb, key) ELSE kb
    /\ KbRecord("keyup", key, "none", kbCall.disposed)
    /\ UNCHANGED win

\* the animation loop calls update()
KbUpdate ==
  /\ KbRecord("update", "none", KbUpdateCallback(kb), kbCall.disposed)
  /\ UNCHANGED <<kb, win>>

KbSetEnabled ==
  \E enabled \in BOOLEAN :
    /\ kb' = setEnabled(kb, enabled)
    /\ KbRecord("setEnabled", "none", "none", kbCall.disposed)
    /\ UNCHANGED win

KbDisposed ==
  /\ kb' = KbDispose(kb)
  /\ win' = disposeWindow(win)
  /\ KbRecord("dispose", "none", "none", TRUE)

KbNext == KbKeyDown \/ KbKeyUp \/ KbUpdate \/ KbSetEnabled \/ KbDisposed

\* the KeyboardController and its window
KeyboardSpec == Init /\ [][KbNext]_vars

----------------------------------------------------------------------------
(* Properties of the SimpleStateMachine *)

\* C1: in every state the SimpleStateMachine reaches through adjustExplosion,
\* setHoveredPartId, selectHoveredPart, navigateLeftRight, goBack, reset and update,
\* selectedMajorPart is non-null exactly when state is PartView.
C1_SelectedIffPartView ==
  (sm.selectedMajorPart # Null) <=> (sm.state = "PartView")

\* PartView has just been entered by selectHoveredPart, with a part selected
C1_Witness ==
  /\ smCall.op = "selectHoveredPart"
  /\ smBefore.state = "Exploded"
  /\ sm.state = "PartView"
  /\ sm.selectedMajorPart = "Leftarm"

\* C2: after adjustExplosion the target it wrote lies in [0, 1], and in every reachable
\* state globalExplosion, partExplosion and both targets lie in [0, 1].
C2_FactorsInUnitRange ==
  /\ sm.globalExplosion \in 0..FOne
  /\ sm.partExplosion \in 0..FOne
  /\ sm.globalExplosionTarget \in 0..FOne
  /\ sm.partExplosionTarget \in 0..FOne

\* adjustExplosion was called with a delta that leaves the range and the target was clamped
C2_Witness ==
  /\ smCall.op = "adjustExplosion"
  /\ smCall.arg > FOne
  /\ smBefore.state = "PartView"
  /\ sm.partExplosionTarget = FOne

\* C4: once a frame passes in which update() changes nothing, globalExplosion equals
\* globalExplosionTarget exactly and partExplosion equals partExplosionTarget exactly.
C4_ExactConvergence ==
  (smIdle /\ smCall = NoCall) =>
     /\ sm.globalExplosion = sm.globalExplosionTarget
     /\ sm.partExplosion = sm.partExplosionTarget

\* the secondary-ring slots i on which part p's transition target lies in s
SlotsOf(s, p) ==
  {i \in 0..(Len(majorParts) - 1) :
     s.transitionTargets[p] = VAdd(subRingFixedPositions(i), partPositionInSubRing(p))}

\* C5: selectHoveredPart() called in Exploded with a major part X hovered (at any
\* globalExplosion, the fully exploded one included) returns true and leaves state
\* PartView, selectedMajorPart X, globalExplosionTarget 1, partExplosion and
\* partExplosionTarget 0, X's transition target mainRingCenter + partPositionInMainRing[X]
\* at scale 1.0, and the other six major parts at scale 0.7 on pairwise distinct
\* secondary-ring slots.
C5_SelectFromExploded ==
  (/\ smCall.op = "selectHoveredPart"
   /\ smBefore.state = "Exploded"
   /\ smBefore.hoveredPart \in MajorPartId)
  => LET X == smBefore.hoveredPart
         others == MajorPartId \ {X}
     IN /\ smCall.ret = TRUE
        /\ sm.state = "PartView"
        /\ sm.selectedMajorPart = X
        /\ sm.globalExplosionTarget = FOne
        /\ sm.partExplosion = 0
        /\ sm.partExplosionTarget = 0
        /\ DOMAIN sm.transitionTargets = MajorPartId
        /\ DOMAIN sm.transitionScales = MajorPartId
        /\ sm.transitionTargets[X] = VAdd(mainRingCenter, partPositionInMainRing(X))
        /\ sm.transitionScales[X] = POne
        /\ \A p \in others : sm.transitionScales[p] = SubRingScale
        /\ \A p \in others : SlotsOf(sm, p) # {}
        /\ \A p, q \in others : p # q => SlotsOf(sm, p) \cap SlotsOf(sm, q) = {}

\* selectHoveredPart() was called on the fully exploded model (globalExplosion settled
\* within the smoothing threshold of 1) with Leftarm hovered
C5_Witness ==
  /\ smCall.op = "selectHoveredPart"
  /\ smBefore.state = "Exploded"
  /\ smBefore.hoveredPart = "Leftarm"
  /\ smBefore.globalExplosion >= FOne - SsmThreshold
  /\ sm.state = "PartView"

\* C6: goBack() called in PartView leaves state Assembled, selectedMajorPart null,
\* partExplosion = partExplosionTarget = 0, globalExplosionTarget = 0, every major part's
\* node at its originalPosition with scale 1.0, and every child part's node at its
\* originalPosition.
C6_GoBackFromPartView ==
  (smCall.op = "goBack" /\ smBefore.state = "PartView")
  => /\ sm.state = "Assembled"
     /\ sm.selectedMajorPart = Null
     /\ sm.partExplosion = 0
     /\ sm.partExplosionTarget = 0
     /\ sm.globalExplosionTarget = 0
     /\ \A p \in MajorPartId : sm.position[p] = originalPosition(p) /\ sm.scale[p] = POne
     /\ \A p \in ChildPartId : sm.position[p] = originalPosition(p)

\* goBack() was called in PartView with the ring layout reached: the focused part away
\* from its original position and another part shrunk to the secondary-ring scale
C6_Witness ==
  /\ smCall.op = "goBack"
  /\ smBefore.state = "PartView"
  /\ smBefore.selectedMajorPart = "Leftarm"
  /\ smBefore.position["Leftarm"] # originalPosition("Leftarm")
  /\ smBefore.scale["Head"] = SubRingScale
  /\ sm.state = "Assembled"

\* C7: whichever part is focused, calculateTransitionTargets gives every other major
\* part p the secondary-ring slot with p's index in majorParts, hence the same target
\* subRingFixedPositions[index of p] + partPositionInSubRing[p] and the scale 0.7, and no
\* two parts share a slot; a change of focus leaves the target of every part that is
\* focused neither before nor after unchanged.
C7_SlotStability ==
  /\ sm.state = "PartView" =>
       /\ \A p \in MajorPartId \ {sm.selectedMajorPart} :
            /\ SlotsOf(sm, p) = {indexOf(p)}
            /\ sm.transitionScales[p] = SubRingScale
       /\ \A p, q \in MajorPartId \ {sm.selectedMajorPart} :
            p # q => SlotsOf(sm, p) \cap SlotsOf(sm, q) = {}
  /\ (smCall # NoCall /\ smBefore.state = "PartView" /\ sm.state = "PartView") =>
       \A p \in MajorPartId \ {smBefore.selectedMajorPart, sm.selectedMajorPart} :
          /\ sm.transitionTargets[p] = smBefore.transitionTargets[p]
          /\ sm.transitionScales[p] = smBefore.transitionScales[p]

\* the focus has just moved from one part to another inside PartView
C7_Witness ==
  /\ smCall.op = "navigateLeftRight"
  /\ smBefore.state = "PartView"
  /\ smBefore.selectedMajorPart = "Leftarm"
  /\ sm.selectedMajorPart = "Rightarm"
  /\ SlotsOf(sm, "Leftarm") = {indexOf("Leftarm")}

\* C8: in PartView seven navigateLeftRight('right') calls in a row bring
\* selectedMajorPart and currentPartIndex back to their values before the first, and
\* navigateLeftRight('right') followed by navigateLeftRight('left') is the identity on both.
C8_NavigationWrap ==
  /\ navRun = Len(majorParts) =>
       <<sm.currentPartIndex, sm.selectedMajorPart>> = navStart
  /\ (/\ smCall.op = "navigateLeftRight" /\ smCall.arg = "left"
      /\ smPrev.op = "navigateLeftRight" /\ smPrev.arg = "right"
      /\ smBefore.state = "PartView")
     => (sm.currentPartIndex = smPrev.idx /\ sm.selectedMajorPart = smPrev.sel)

\* seven navigateLeftRight('right') calls in a row have been made in PartView
C8_Witness ==
  /\ navRun = Len(majorParts)
  /\ sm.state = "PartView"
  /\ navStart = <<indexOf("Leftarm"), "Leftarm">>

\* C10: when selectHoveredPart() is called twice in a row with the same major part
\* hovered, the second call leaves state, selectedMajorPart, currentPartIndex,
\* globalExplosion, partExplosion, both targets and all ring transition targets and
\* scales as the first call left them.
C10_SelectTwice ==
  (/\ smCall.op = "selectHoveredPart"
   /\ smPrev.op = "selectHoveredPart"
   /\ smBefore.hoveredPart \in MajorPartId)
  => /\ sm.state = smBefore.state
     /\ sm.selectedMajorPart = smBefore.selectedMajorPart
     /\ sm.currentPartIndex = smBefore.currentPartIndex
     /\ sm.globalExplosion = smBefore.globalExplosion
     /\ sm.partExplosion = smBefore.partExplosion
     /\ sm.globalExplosionTarget = smBefore.globalExplosionTarget
     /\ sm.partExplosionTarget = smBefore.partExplosionTarget
     /\ sm.transitionTargets = smBefore.transitionTargets
     /\ sm.transitionScales = smBefore.transitionScales

\* selectHoveredPart() has been called twice in a row with Leftarm hovered, the first
\* call entering PartView below half explosion
C10_Witness ==
  /\ smCall.op = "selectHoveredPart"
  /\ smPrev.op = "selectHoveredPart"
  /\ smBefore.hoveredPart = "Leftarm"
  /\ sm.state = "PartView"
  /\ sm.selectedMajorPart = "Leftarm"
  /\ sm.globalExplosion = FOne \div 2

\* C11: after one adjustExplosion(0.2) from the initial state the state is Exploded and,
\* once update() has come to rest, globalExplosion is within 0.001 of 0.2; whenever
\* adjustExplosion raises globalExplosionTarget above 0.1 in Assembled the state becomes
\* Exploded; and in every reachable Assembled state globalExplosionTarget <= 0.1.
C11_AssembledToExploded ==
  /\ (smCmds = 1 /\ sm.globalExplosionTarget = FOne \div 5) =>
       /\ sm.state = "Exploded"
       /\ smIdle => Abs(sm.globalExplosion - FOne \div 5) <= SsmThreshold
  /\ (/\ smCall.op = "adjustExplosion"
      /\ smBefore.state = "Assembled"
      /\ sm.globalExplosionTarget > FOne \div 10) => sm.state = "Exploded"
  /\ sm.state = "Assembled" => sm.globalExplosionTarget <= FOne \div 10

\* the only command so far was adjustExplosion(0.2), and update() has come to rest in
\* Exploded with globalExplosion just below 0.2
C11_Witness ==
  /\ smCmds = 1
  /\ smIdle
  /\ smCall = NoCall
  /\ sm.globalExplosionTarget = FOne \div 5
  /\ sm.state = "Exploded"
  /\ sm.globalExplosion > FOne \div 5 - SsmThreshold
  /\ sm.globalExplosion < FOne \div 5

\* C12: whenever adjustExplosion or goBack takes globalExplosionTarget below 0.05 in
\* Exploded the state becomes Assembled, so in every reachable Exploded state
\* globalExplosionTarget >= 0.05.
C12_ExplodedTargetFloor ==
  /\ (/\ smCall.op \in {"adjustExplosion", "goBack"}
      /\ smBefore.state = "Exploded"
      /\ sm.globalExplosionTarget < FOne \div 20) => sm.state = "Assembled"
  /\ sm.state = "Exploded" => sm.globalExplosionTarget >= FOne \div 20

\* selectHoveredPart() has just been called outside PartView with a major part hovered
SelectOutsidePartView ==
  /\ smCall.op = "selectHoveredPart"
  /\ smBefore.state \in {"Assembled", "Exploded"}
  /\ smBefore.hoveredPart \in MajorPartId

\* the call returned false and left state, selection, factors and targets alone
SelectRefused ==
  /\ smCall.ret = FALSE
  /\ sm.state = smBefore.state
  /\ sm.selectedMajorPart = smBefore.selectedMajorPart
  /\ sm.globalExplosion = smBefore.globalExplosion
  /\ sm.partExplosion = smBefore.partExplosion
  /\ sm.globalExplosionTarget = smBefore.globalExplosionTarget
  /\ sm.partExplosionTarget = smBefore.partExplosionTarget

\* C13 as stated: from Assembled or Exploded, selectHoveredPart() on a hovered major part
\* enters PartView only if globalExplosion > 0.1; if it is not, the call returns false
\* and leaves state, selectedMajorPart, factors and targets unchanged.
C13_Original ==
  SelectOutsidePartView =>
    /\ sm.state = "PartView" => smBefore.globalExplosion > FOne \div 10
    /\ smBefore.globalExplosion <= FOne \div 10 => SelectRefused

\* C13 amended: from Assembled or Exploded, selectHoveredPart() on a hovered major part
\* enters PartView and returns true exactly if the state is Exploded or globalExplosion
\* > 0.1; otherwise (Assembled with globalExplosion <= 0.1) it returns false and leaves
\* state, selectedMajorPart, factors and targets unchanged.
C13_SelectAdmission ==
  SelectOutsidePartView =>
    IF smBefore.state = "Exploded" \/ smBefore.globalExplosion > FOne \div 10
    THEN smCall.ret = TRUE /\ sm.state = "PartView"
                           /\ sm.selectedMajorPart = smBefore.hoveredPart
    ELSE SelectRefused

\* selectHoveredPart() was called in Assembled while the model was still spread out
\* (globalExplosion > 0.1) and entered PartView
C13_Witness ==
  /\ SelectOutsidePartView
  /\ smBefore.state = "Assembled"
  /\ smBefore.globalExplosion > FOne \div 10
  /\ sm.state = "PartView"

\* the focus has just been moved inside PartView: by selectHoveredPart() with another
\* major part hovered, or by navigateLeftRight
FocusSwitched ==
  /\ smCall.op \in {"selectHoveredPart", "navigateLeftRight"}
  /\ smBefore.state = "PartView"
  /\ smCall.op = "selectHoveredPart" =>
       smBefore.hoveredPart \in MajorPartId \ {smBefore.selectedMajorPart}

\* the part the focus was moved to
FocusSwitchedTo ==
  IF smCall.op = "selectHoveredPart" THEN smBefore.hoveredPart
  ELSE majorParts[((smBefore.currentPartIndex + Len(majorParts)
                     + (IF smCall.arg = "left" THEN -1 ELSE 1)) % Len(majorParts)) + 1]

\* C14: in PartView on part X, selecting a different major part Y, by selectHoveredPart()
\* with Y hovered or by navigateLeftRight, sets selectedMajorPart = Y, recomputes the
\* ring targets for Y, resets partExplosion and partExplosionTarget to 0, and puts every
\* child part of every major part other than Y at its originalPosition.
C14_SwitchFocusResets ==
  FocusSwitched =>
    LET Y == FocusSwitchedTo
    IN /\ sm.selectedMajorPart = Y
       /\ sm.transitionTargets[Y] = VAdd(mainRingCenter, partPositionInMainRing(Y))
       /\ \A q \in MajorPartId \ {Y} : SlotsOf(sm, q) = {indexOf(q)}
       /\ sm.partExplosion = 0
       /\ sm.partExplosionTarget = 0
       /\ \A q \in MajorPartId \ {Y} :
            \A c \in ChildrenOf(q) : sm.position[c] = originalPosition(c)

\* C15: adjustExplosion(delta) changes only the target of the active factor,
\* partExplosionTarget in PartView and globalExplosionTarget otherwise, to the clamped
\* sum; the other target, both current values, selectedMajorPart, hoveredPart and
\* currentPartIndex are as they were before the call.
C15_AdjustActiveTargetOnly ==
  smCall.op = "adjustExplosion" =>
    /\ IF smBefore.state = "PartView"
       THEN /\ sm.partExplosionTarget = clamp01(smBefore.partExplosionTarget + smCall.arg)
            /\ sm.globalExplosionTarget = smBefore.globalExplosionTarget
       ELSE /\ sm.globalExplosionTarget = clamp01(smBefore.globalExplosionTarget + smCall.arg)
            /\ sm.partExplosionTarget = smBefore.partExplosionTarget
    /\ sm.globalExplosion = smBefore.globalExplosion
    /\ sm.partExplosion = smBefore.partExplosion
    /\ sm.selectedMajorPart = smBefore.selectedMajorPart
    /\ sm.hoveredPart = smBefore.hoveredPart
    /\ sm.currentPartIndex = smBefore.currentPartIndex

C15_Witness ==
  /\ smCall.op = "adjustExplosion"
  /\ smBefore.state = "PartView"
  /\ smBefore.globalExplosion < smBefore.globalExplosionTarget
  /\ sm.partExplosionTarget > smBefore.partExplosionTarget

\* C16: in every state, selectHoveredPart() called while hoveredPart is null or is not
\* a major part id (a child part) returns false and leaves the whole machine as it
\* was: state, selectedMajorPart, currentPartIndex, both factors, both targets and
\* every part's position and scale.
C16_SelectNothingIsNoOp ==
  (/\ smCall.op = "selectHoveredPart"
   /\ smBefore.hoveredPart \notin MajorPartId) =>
     /\ smCall.ret = FALSE
     /\ sm = smBefore

C16_Witness ==
  /\ smCall.op = "selectHoveredPart"
  /\ smBefore.hoveredPart \in ChildPartId
  /\ smBefore.state = "PartView"
  /\ smBefore.partExplosion > 0
  /\ smCall.ret = FALSE
  /\ sm.state = "PartView"

\* the step of the navigation call just made: -1 for left and up, 1 for right and down
NavigatedBy == IF smCall.arg \in {"left", "up"} THEN -1 ELSE 1

\* C17: outside PartView, navigateLeftRight and navigate only move the highlight
\* pointer: state, selectedMajorPart, globalExplosion, partExplosion, both targets and
\* every part's position and scale are as before the call.  Inside PartView they make
\* majorParts[(currentPartIndex +/- 1) mod 7] the selectedMajorPart.
C17_NavigationEffect ==
  smCall.op \in {"navigateLeftRight", "navigate"} =>
    IF smBefore.state # "PartView"
    THEN /\ sm.state = smBefore.state
         /\ sm.selectedMajorPart = smBefore.selectedMajorPart
         /\ sm.globalExplosion = smBefore.globalExplosion
         /\ sm.partExplosion = smBefore.partExplosion
         /\ sm.globalExplosionTarget = smBefore.globalExplosionTarget
         /\ sm.partExplosionTarget = smBefore.partExplosionTarget
         /\ sm.position = smBefore.position
         /\ sm.scale = smBefore.scale
    ELSE sm.selectedMajorPart =
           majorParts[((smBefore.currentPartIndex + NavigatedBy) % 7) + 1]

C17_Witness ==
  /\ smCall.op = "navigate"
  /\ smCall.arg = "up"
  /\ smBefore.state = "Exploded"
  /\ smBefore.currentPartIndex = 0
  /\ sm.currentPartIndex = 6
  /\ sm.hoveredPart = majorParts[7]
  /\ sm.selectedMajorPart = Null

\* C18: whenever the state is not PartView, partExplosion = 0 and
\* partExplosionTarget = 0.
C18_PartFactorOnlyInPartView ==
  sm.state # "PartView" => (sm.partExplosion = 0 /\ sm.partExplosionTarget = 0)

C18_Witness ==
  /\ smCall.op = "goBack"
  /\ smBefore.state = "PartView"
  /\ smBefore.partExplosion > 0
  /\ smBefore.partExplosionTarget > 0
  /\ sm.state = "Assembled"
  /\ sm.partExplosion = 0
  /\ sm.partExplosionTarget = 0

\* the exploded place of part p under factor f: originalPosition + normalized
\* direction * distance * f
ExplodedPosition(p, f) == VAdd(originalPosition(p), VScaleF(ExplodeVector(p), f))

\* an update() tick that ends outside PartView leaves every major part at its exploded
\* place under the globalExplosion the tick produced
TickConsistentOutside ==
  (smCall' = NoCall /\ sm'.state # "PartView") =>
     \A p \in MajorPartId : sm'.position[p] = ExplodedPosition(p, sm'.globalExplosion)

\* an update() tick in PartView that changed partExplosion leaves every child of the
\* selected part at its exploded place under the partExplosion the tick produced
TickConsistentInPartView ==
  (/\ smCall' = NoCall
   /\ sm'.state = "PartView"
   /\ sm'.partExplosion # sm.partExplosion) =>
     \A c \in ChildrenOf(sm'.selectedMajorPart) :
        sm'.position[c] = ExplodedPosition(c, sm'.partExplosion)

\* C21: within one update() tick the factors are smoothed before the transforms are
\* recomputed, so after the tick the transforms agree with the factors of that tick:
\* outside PartView every major part is at originalPosition + normalized direction *
\* distance * globalExplosion, and in PartView, whenever partExplosion changed in the
\* tick, every child of the selected part is at originalPosition + normalized
\* direction * distance * partExplosion.
C21_TickConsistent == [][TickConsistentOutside /\ TickConsistentInPartView]_vars

\* every major part is exactly at its transition target, in position and in scale
AtTransitionTargets ==
  \A p \in MajorPartId :
     /\ sm.position[p] = sm.transitionTargets[p]
     /\ sm.scale[p] = sm.transitionScales[p]

\* C22: after a focus selection, once the commands have stopped, finitely many update()
\* ticks bring every major part's position to its transition target exactly and its
\* scale to its target scale exactly, and from then on isTransitioning is false and
\* stays false.
C22_TransitionConverges ==
  <>[](sm.state = "PartView" => (AtTransitionTargets /\ ~sm.isTransitioning))

\* a focus view at rest: the focused part sits on the primary ring, away from where the
\* model has it, the others are scaled down on the secondary ring, and a further
\* update() tick has changed nothing
C22_Witness ==
  /\ sm.state = "PartView"
  /\ smIdle
  /\ smCall = NoCall
  /\ AtTransitionTargets
  /\ ~sm.isTransitioning
  /\ sm.position[sm.selectedMajorPart] # originalPosition(sm.selectedMajorPart)
  /\ \A p \in MajorPartId \ {sm.selectedMajorPart} : sm.scale[p] = SubRingScale

\* C24: goBack() is idempotent in every reachable state: a second goBack() right after
\* the first changes nothing, so two calls leave the same state tag, selectedMajorPart,
\* hoveredPart, factors, targets and part transforms as one.
C24_GoBackIdempotent ==
  /\ goBack(goBack(sm)) = goBack(sm)
  /\ (smCall.op = "goBack" /\ smPrev.op = "goBack") => sm = smBefore

C24_Witness ==
  /\ smCall.op = "goBack"
  /\ smPrev.op = "goBack"
  /\ smBefore.state = "Exploded"
  /\ smBefore.globalExplosion > 0
  /\ smBefore.globalExplosionTarget = 0
  /\ sm = smBefore

\* C25: with the wiring of main.ts, whenever the mouse controller reports a double-click
\* on major part X while the machine is in Exploded, the machine enters PartView with
\* selectedMajorPart = X, whatever hover events, keyboard navigation and goBack calls
\* came before the double-click.
C25_DoubleClickSelectsReported ==
  (/\ smCall.op = "onDoubleClick"
   /\ smBefore.state = "Exploded"
   /\ smCall.arg \in MajorPartId) =>
     /\ sm.state = "PartView"
     /\ sm.selectedMajorPart = smCall.arg

----------------------------------------------------------------------------
(* ExplodeController: the calls and the frame tick *)

\* calls made on the ExplodeController in one run
MaxEcCalls == 2

\* the factors the target setters are called with: below the range, inside (one of
\* them half a CHANGE_THRESHOLD away from rest), above
Factors == {-(FOne \div 2), CHANGE_THRESHOLD \div 2, (3 * FOne) \div 10, 2 * FOne}

\* the amounts the increase/decrease methods are called with: the default and a
\* negative one
Amounts == {DefaultAmount, -(FOne \div 2)}

\* the objects setFocusRoot is called with
FocusObjects == {Null, "Leftarm"}

\* a call can be made now: right after another call, once a frame has passed without
\* any change, or in the first EarlyTicks frames of an animation
EcCallSlot ==
  /\ ecCalls < MaxEcCalls
  /\ (ecCall # NoCall \/ ecIdle \/ ecFrame <= EarlyTicks)

\* what every call records
EcRecord(op, arg) ==
  /\ EcCallSlot
  /\ ecCalls' = ecCalls + 1
  /\ ecCall' = [op |-> op, arg |-> arg]
  /\ ecFrame' = 0
  /\ ecIdle' = FALSE
  /\ ecBefore' = EcInit
  /\ UNCHANGED <<smVars, selVars, mouseVars, gcVars, otherVars>>

EcSetGlobalExplosionTarget ==
  \E factor \in Factors :
    /\ EcRecord("setGlobalExplosionTarget", factor)
    /\ ec' = setGlobalExplosionTarget(ec, factor)

EcIncreaseGlobalExplosion ==
  \E amount \in Amounts :
    /\ EcRecord("increaseGlobalExplosion", amount)
    /\ ec' = increaseGlobalExplosion(ec, amount)

EcDecreaseGlobalExplosion ==
  \E amount \in Amounts :
    /\ EcRecord("decreaseGlobalExplosion", amount)
    /\ ec' = decreaseGlobalExplosion(ec, amount)

EcSetPartExplosionTarget ==
  \E factor \in Factors :
    /\ EcRecord("setPartExplosionTarget", factor)
    /\ ec' = setPartExplosionTarget(ec, factor)

EcIncreasePartExplosion ==
  \E amount \in Amounts :
    /\ EcRecord("increasePartExplosion", amount)
    /\ ec' = increasePartExplosion(ec, amount)

EcDecreasePartExplosion ==
  \E amount \in Amounts :
    /\ EcRecord("decreasePartExplosion", amount)
    /\ ec' = decreasePartExplosion(ec, amount)

EcSetFocusRoot ==
  \E object \in FocusObjects :
    /\ EcRecord("setFocusRoot", object)
    /\ ec' = setFocusRoot(ec, object)

EcIncreaseCurrentExplosion ==
  \E amount \in Amounts :
    /\ EcRecord("increaseCurrentExplosion", amount)
    /\ ec' = increaseCurrentExplosion(ec, amount)

EcDecreaseCurrentExplosion ==
  \E amount \in Amounts :
    /\ EcRecord("decreaseCurrentExplosion", amount)
    /\ ec' = decreaseCurrentExplosion(ec, amount)

EcResetTargets ==
  /\ EcRecord("reset", Null)
  /\ ec' = EcReset(ec)

EcResetImmediate ==
  /\ EcRecord("resetImmediate", Null)
  /\ ec' = resetImmediate(ec)

\* one frame of the host loop: explodeController.update(deltaTime)
EcTick ==
  /\ ec' = EcUpdate(ec)
  /\ ecCall' = NoCall
  /\ ecFrame' = Min(ecFrame + 1, EarlyTicks + 1)
  /\ ecIdle' = /\ ec'.globalFactorCurrent = ec.globalFactorCurrent
               /\ ec'.partFactorCurrent = ec.partFactorCurrent
  /\ ecBefore' = ec
  /\ UNCHANGED <<ecCalls, smVars, selVars, mouseVars, gcVars, otherVars>>

EcNext ==
  \/ EcSetGlobalExplosionTarget
  \/ EcIncreaseGlobalExplosion
  \/ EcDecreaseGlobalExplosion
  \/ EcSetPartExplosionTarget
  \/ EcIncreasePartExplosion
  \/ EcDecreasePartExplosion
  \/ EcSetFocusRoot
  \/ EcIncreaseCurrentExplosion
  \/ EcDecreaseCurrentExplosion
  \/ EcResetTargets
  \/ EcResetImmediate
  \/ EcTick

\* the ExplodeController under its calls and a host that keeps calling update(), the
\* per-frame method (as the animation loop of main.ts does for the state machine): a
\* tick that would change something is eventually taken
EcSpec == Init /\ [][EcNext]_vars /\ WF_vars(EcTick)

EcConverged ==
  /\ ec.globalFactorCurrent = ec.globalFactorTarget
  /\ ec.partFactorCurrent = ec.partFactorTarget

\* C3: once the target-setting calls have stopped, finitely many update() ticks make
\* globalFactorCurrent equal globalFactorTarget exactly and partFactorCurrent equal
\* partFactorTarget exactly, and every later update() leaves both unchanged.
C3_EcConverges == <>[]EcConverged

\* both factors have travelled to targets away from 0 and a further update() tick has
\* changed neither
C3_Witness ==
  /\ ecCall = NoCall
  /\ ecIdle
  /\ ec.globalFactorTarget = (3 * FOne) \div 10
  /\ ec.partFactorTarget = FOne
  /\ EcConverged

\* C19: after any sequence of target-setting calls (set, increase, decrease, with any
\* numeric argument, negative or above 1) interleaved with update(), both targets and
\* both current factors of the ExplodeController lie in [0, 1].
C19_EcFactorsInUnitRange ==
  /\ ec.globalFactorTarget \in 0..FOne
  /\ ec.partFactorTarget \in 0..FOne
  /\ ec.globalFactorCurrent \in 0..FOne
  /\ ec.partFactorCurrent \in 0..FOne

\* the last step on the ExplodeController was an update() tick
EcJustTicked == ecFrame > 0

\* C20: a tick of ExplodeController.update() invokes onGlobalFactorChange exactly when
\* globalFactorCurrent moved by more than CHANGE_THRESHOLD during that tick, and
\* onPartFactorChange exactly when partFactorCurrent did; a factor that already equals
\* its target when the tick begins produces no notification.
C20_NotifyIffMoved ==
  EcJustTicked =>
    /\ ec.globalNotified <=>
         Abs(ec.globalFactorCurrent - ecBefore.globalFactorCurrent) > CHANGE_THRESHOLD
    /\ ec.partNotified <=>
         Abs(ec.partFactorCurrent - ecBefore.partFactorCurrent) > CHANGE_THRESHOLD
    /\ ecBefore.globalFactorCurrent = ecBefore.globalFactorTarget => ~ec.globalNotified
    /\ ecBefore.partFactorCurrent = ecBefore.partFactorTarget => ~ec.partNotified

\* a tick in which the global factor crept towards its target by less than the
\* threshold, unannounced, while the part factor moved and was announced
C20_Witness ==
  /\ EcJustTicked
  /\ ec.globalFactorCurrent # ecBefore.globalFactorCurrent
  /\ ec.globalFactorCurrent # ec.globalFactorTarget
  /\ ~ec.globalNotified
  /\ ec.partNotified
  /\ ec.partDelivered = ec.partFactorCurrent

\* C32: in every reachable state with state = 'PartView', globalExplosionTarget = 1
\* and globalExplosion >= 0.5: the whole-assembly explosion stays forced open for as
\* long as a part is focused, whatever adjustExplosion calls are made.
C32_PartViewForcedOpen ==
  sm.state = "PartView" =>
    (sm.globalExplosionTarget = FOne /\ sm.globalExplosion >= FOne \div 2)

\* adjustExplosion with a negative delta has just been called in PartView, entered
\* while globalExplosion was below 0.5
C32_Witness ==
  /\ smCall.op = "adjustExplosion"
  /\ smCall.arg < 0
  /\ smBefore.state = "PartView"
  /\ sm.state = "PartView"
  /\ sm.globalExplosion = FOne \div 2
  /\ sm.globalExplosionTarget = FOne

\* C34: in every reachable state 0 <= currentPartIndex < 7, and whenever state =
\* 'PartView', MECH_HIERARCHY.majorParts[currentPartIndex] equals selectedMajorPart.
C34_IndexNamesSelected ==
  /\ sm.currentPartIndex \in 0..(Len(majorParts) - 1)
  /\ sm.state = "PartView" => majorParts[sm.currentPartIndex + 1] = sm.selectedMajorPart

\* navigateLeftRight('left') in PartView has just wrapped from the first part of the
\* list to the last
C34_Witness ==
  /\ smCall.op = "navigateLeftRight"
  /\ smBefore.state = "PartView"
  /\ smBefore.currentPartIndex = 0
  /\ sm.currentPartIndex = Len(majorParts) - 1
  /\ sm.selectedMajorPart = "Rightleg"

\* the machine is as goBack() in the Exploded state leaves it: Exploded with the
\* global explosion target at 0 (adjustExplosion sets Assembled with every target
\* below 0.05, so that only goBack() produces this)
WentBackInExploded == sm.state = "Exploded" /\ sm.globalExplosionTarget = 0

\* only goBack() brings WentBackInExploded about
OnlyGoBackLeavesExplodedAtZero ==
  [][(WentBackInExploded' /\ ~WentBackInExploded) => smCall'.op = "goBack"]_vars

\* C28: after goBack() in the Exploded state, which sets the global explosion target
\* to 0, the state switches to Assembled automatically once the explosion has
\* smoothed down, through update() ticks alone: the ticks do not come to rest (a
\* tick that changes nothing, no command since) with the machine still Exploded.
C28_GoBackAssembles == WentBackInExploded => ~(smIdle /\ smCall = NoCall)

----------------------------------------------------------------------------
(* Properties of the ExplodeController's update() tick *)

\* the pose updatePartPositions is to give part p under global factor f: the rest
\* pose plus explodeDirection * explodeDistance * f * 2, turned by
\* explodeDirection * f * ROTATION_AMOUNT if f > 0.01
PosedFromRest(p, f) ==
  /\ ec.meshPosition[p] =
       VAdd(basePosition(p),
            VScaleP(explodeDirection(p), MulDiv(explodeDistance(p) * 2, f, FOne)))
  /\ ec.meshRotation[p] =
       IF f > FOne \div 100
       THEN VAdd(baseRotation(p), VScaleF(explodeDirection(p), MulDiv(f, ROTATION_AMOUNT, 100)))
       ELSE baseRotation(p)

\* C29: after every ExplodeController.update(), each tracked part's position equals
\* basePosition + explodeDirection * explodeDistance * globalFactorCurrent * 2,
\* computed from the rest pose and never accumulated, and its rotation equals
\* baseRotation + explodeDirection * globalFactorCurrent * ROTATION_AMOUNT when
\* globalFactorCurrent > 0.01 and exactly baseRotation otherwise.
C29_PoseFromRest ==
  EcJustTicked => \A p \in EcTracked : PosedFromRest(p, ec.globalFactorCurrent)

\* two update() ticks in a row have left the Head away from its rest pose and turned
C29_Witness ==
  /\ ecFrame > 1
  /\ ec.globalFactorCurrent > FOne \div 100
  /\ ec.meshPosition["Head"] # basePosition("Head")
  /\ ec.meshRotation["Head"] # baseRotation("Head")

\* the larger change of the two current factors in the last update() tick
EcTickChange ==
  Max(Abs(ec.globalFactorCurrent - ecBefore.globalFactorCurrent),
      Abs(ec.partFactorCurrent - ecBefore.partFactorCurrent))

\* C30: in every ExplodeController.update() tick each current factor changes by at
\* most MAX_CHANGE_PER_FRAME = 0.05, the tick that snaps onto the target included.
C30_ChangePerFrameBounded == EcJustTicked => EcTickChange <= MAX_CHANGE_PER_FRAME

\* an update() tick has just moved a factor by exactly MAX_CHANGE_PER_FRAME
C30_Witness == EcJustTicked /\ EcTickChange = MAX_CHANGE_PER_FRAME

\* x lies between a and b, the ends included
Between(a, x, b) == (a <= x /\ x <= b) \/ (b <= x /\ x <= a)

\* C35: in every ExplodeController.update() tick each current factor moves toward
\* its target without overshoot: the new value lies between the old value and the
\* target (inclusive), so the distance to the target never increases from tick to tick.
C35_NoOvershoot ==
  EcJustTicked =>
    /\ Between(ecBefore.globalFactorCurrent, ec.globalFactorCurrent, ecBefore.globalFactorTarget)
    /\ Between(ecBefore.partFactorCurrent, ec.partFactorCurrent, ecBefore.partFactorTarget)

\* an update() tick has just moved the global factor part of the way to its target
C35_Witness ==
  /\ EcJustTicked
  /\ ecBefore.globalFactorCurrent < ec.globalFactorCurrent
  /\ ec.globalFactorCurrent < ec.globalFactorTarget

\* the callback has been invoked at least once / its last argument was v
WasDelivered(d) == ToString(d) # ToString(Null)
DeliveredIs(d, v) == ToString(d) = ToString(v)

\* the last update() tick has moved the factor onto its target: from here on
\* current equals target and further ticks change nothing and deliver nothing
GlobalLanded ==
  /\ EcJustTicked
  /\ ecBefore.globalFactorCurrent # ec.globalFactorCurrent
  /\ ec.globalFactorCurrent = ec.globalFactorTarget
PartLanded ==
  /\ EcJustTicked
  /\ ecBefore.partFactorCurrent # ec.partFactorCurrent
  /\ ec.partFactorCurrent = ec.partFactorTarget

\* C36: whenever a factor has converged after a target change (current equals
\* target and further ticks change nothing), the last value delivered through
\* onGlobalFactorChange (resp. onPartFactorChange) equals the final current value.
C36_DeliveredIsFinal ==
  /\ GlobalLanded => DeliveredIs(ec.globalDelivered, ec.globalFactorCurrent)
  /\ PartLanded => DeliveredIs(ec.partDelivered, ec.partFactorCurrent)

----------------------------------------------------------------------------
(* ExplodeController: entering and leaving part-level focus *)

\* calls made on the ExplodeController in one run of focus sessions
MaxFocusCalls == 3

\* what every call of a focus session records
FcRecord(op, arg) ==
  /\ ecCalls < MaxFocusCalls
  /\ (ecCall # NoCall \/ ecIdle \/ ecFrame <= EarlyTicks)
  /\ ecCalls' = ecCalls + 1
  /\ ecCall' = [op |-> op, arg |-> arg]
  /\ ecFrame' = 0
  /\ ecIdle' = FALSE
  /\ ecBefore' = EcInit
  /\ UNCHANGED <<smVars, selVars, mouseVars, gcVars, otherVars>>

\* setFocusRoot(object): part-level focus is entered
FcEnterFocus ==
  \E object \in FocusObjects \ {Null} :
    /\ FcRecord("setFocusRoot", object)
    /\ ec' = setFocusRoot(ec, object)

\* the part factor is driven while a part is in focus
FcSetPartExplosionTarget ==
  \E factor \in Factors :
    /\ ec.currentLevel = "part"
    /\ FcRecord("setPartExplosionTarget", factor)
    /\ ec' = setPartExplosionTarget(ec, factor)

FcIncreaseCurrentExplosion ==
  /\ ec.currentLevel = "part"
  /\ FcRecord("increaseCurrentExplosion", DefaultAmount)
  /\ ec' = increaseCurrentExplosion(ec, DefaultAmount)

\* setFocusRoot(null): part-level focus is left
FcLeaveFocus ==
  /\ ec.currentLevel = "part"
  /\ FcRecord("setFocusRoot", Null)
  /\ ec' = setFocusRoot(ec, Null)

FcNext ==
  \/ FcEnterFocus
  \/ FcSetPartExplosionTarget
  \/ FcIncreaseCurrentExplosion
  \/ FcLeaveFocus
  \/ EcTick

\* the ExplodeController through focus sessions, under a host that keeps calling
\* update(): the part target is only set while a part is in focus
FocusSpec == Init /\ [][FcNext]_vars /\ WF_vars(EcTick)

\* part-level focus has just been left
FocusLeft == ecCall.op = "setFocusRoot" /\ ecCall.arg = Null

\* C23: after part-level focus is left with setFocusRoot(null), and with no further
\* target-setting call, repeated update() ticks make the part factor decay to 0:
\* partFactorCurrent eventually equals 0.
C23_PartFactorDecays == FocusLeft ~> (ec.partFactorCurrent = 0)

----------------------------------------------------------------------------
(* SelectionController: the calls *)

\* the navigation stack is explored up to this depth
MaxStack == 2

\* the parts setSelectedPart is called with: one without child meshes, two with
SelParts == {"Head", "Leftarm", "Rightleg"}

\* the controller as a call finds it: the callbacks of the previous call are history
SelEntry == [sel EXCEPT !.emitted = <<>>]

\* what every call records
SelRecord(op, arg) ==
  /\ Len(sel'.navigationStack) <= MaxStack
  /\ selCall' = [op |-> op, arg |-> arg]
  /\ selBefore' = SelEntry
  /\ selPrev' = IF selCall = NoCall THEN NoCall
                ELSE [op |-> selCall.op, arg |-> selCall.arg,
                      selected |-> selBefore.selectedPart]
  /\ UNCHANGED <<smVars, ecVars, mouseVars, gcVars, otherVars>>

SelectionSetSelectedPart ==
  \E part \in SelParts \cup {Null} :
    /\ sel' = setSelectedPart(SelEntry, part)
    /\ SelRecord("setSelectedPart", part)

SelectionDrillDown ==
  /\ sel' = drillDown(SelEntry)
  /\ SelRecord("drillDown", Null)

SelectionGoBack ==
  /\ sel' = SelGoBack(SelEntry)
  /\ SelRecord("goBack", Null)

SelectionClearSelection ==
  /\ sel' = clearSelection(SelEntry)
  /\ SelRecord("clearSelection", Null)

SelNext ==
  \/ SelectionSetSelectedPart
  \/ SelectionDrillDown
  \/ SelectionGoBack
  \/ SelectionClearSelection

\* the SelectionController under its calls
SelSpec == Init /\ [][SelNext]_vars

\* setSelectedPart(p) has just been called twice in a row with the same part p
SelTwice ==
  /\ selCall.op = "setSelectedPart"
  /\ selPrev.op = "setSelectedPart"
  /\ selCall.arg # Null
  /\ selPrev.arg = selCall.arg

\* what the second of two setSelectedPart(p) calls must have done: the drill path
SelSecondDrilled ==
  LET p == selCall.arg
  IN /\ sel.focusRoot = p
     /\ sel.focusMode = "part"
     /\ sel.focusRoot = selBefore.focusRoot
     /\ sel.focusMode = selBefore.focusMode
     /\ IF hasChildMeshes(p)
        THEN sel.navigationStack = Append(selBefore.navigationStack, p)
        ELSE sel = selBefore

\* C9 as stated: whenever setSelectedPart(p) is called twice in a row with the same
\* part p, the second call leaves the focus (focusRoot p, focusMode 'part') unchanged
\* and takes the drill path: p is pushed on navigationStack if p has children,
\* otherwise no state changes and no callback is emitted.
C9_Original == SelTwice => SelSecondDrilled

\* C9 amended: the same, provided p was not already the selected part when the first
\* of the two calls was made (so that the first call is the one that selects p).
C9_ReselectDrills == (SelTwice /\ selPrev.selected # selCall.arg) => SelSecondDrilled

\* setSelectedPart("Leftarm") was called twice in a row, the first call selecting
\* Leftarm and the second pushing it on the navigation stack
C9_Witness ==
  /\ SelTwice
  /\ selCall.arg = "Leftarm"
  /\ selPrev.selected # "Leftarm"
  /\ sel.navigationStack = <<"Leftarm">>
  /\ sel.emitted = <<"onSelectionChange">>

----------------------------------------------------------------------------
(* Properties of the GestureController *)

\* two gesture-initiated mode changes have taken effect
TwoGestureChanges == gcGesture.on /\ gcGesture.prevOn

\* the last call was a click on a mode button
ClickedMode == gcCall.op = "setMode"

\* a click-initiated setMode(mode, false) leaves the controller in that mode
ClickNeverBlocked == ClickedMode => gc.currentMode = gcCall.arg

\* C26 as stated: after a gesture-initiated mode change at time t, no
\* gesture-initiated mode change takes effect before t + 5000 ms, whereas a
\* click-initiated setMode(mode, false) is never blocked by this lock.
C26_Original ==
  /\ TwoGestureChanges => gcGesture.at - gcGesture.prevAt >= MODE_LOCK_DURATION
  /\ ClickNeverBlocked

\* C26 amended: after a gesture-initiated mode change at time t, no
\* gesture-initiated mode change takes effect before t + 5000 ms unless a
\* setMode(mode, false) (a click, the timer of a selection, the automatic return to
\* watch mode) has changed the mode in between; a click-initiated
\* setMode(mode, false) is never blocked by this lock.
C26_GestureLock ==
  /\ (TwoGestureChanges /\ ~gcGesture.prevReleased)
       => gcGesture.at - gcGesture.prevAt >= MODE_LOCK_DURATION
  /\ ClickNeverBlocked

\* a frame has just made the second gesture-initiated mode change, no
\* setMode(mode, false) having changed the mode since the first
C26_Witness ==
  /\ TwoGestureChanges
  /\ ~gcGesture.prevReleased
  /\ gcCall.op = "onResults"
  /\ gcGesture.at = gcCall.at
  /\ gc.currentMode # gcCall.mode

\* the last call was a hand-tracking frame that found the mode other than watch and
\* the last interaction more than AUTO_RESET_TIMEOUT ago
FrameFoundResetDue == gcCall.op = "onResults" /\ gcCall.due

\* C27: if the current mode is not 'watch' and more than 60000 ms have elapsed since
\* the last interaction, processing the next hand-tracking frame (onResults) returns
\* the controller to 'watch', whether or not the 5 s mode lock is active.
C27_AutoResetReturnsToWatch == FrameFoundResetDue => gc.currentMode = "watch"

----------------------------------------------------------------------------
(* Properties of the GestureController in explode mode *)

\* the last event invoked onAggregation / onEscape
Aggregated == xmCall.aggregated

\* the open palm has driven an explosion before the last aggregation
ExplodedBefore == xm.lastExplosionTime > 0 /\ xm.lastExplosionTime <= xm.lastAggregationTime

\* an aggregation comes more than EXPLOSION_COOLDOWN after the one before it
AggregationsApart ==
  (Aggregated /\ xmCall.prevAggregationTime > 0) =>
     xm.lastAggregationTime - xmCall.prevAggregationTime >= EXPLOSION_COOLDOWN

\* C31: in explode mode onAggregation / onEscape is never invoked within
\* AGGREGATION_BLOCK_TIME (3000 ms) after the most recent open-palm explosion frame,
\* whatever shapes the right hand shows in between (open, pointer, fist, other), and
\* two aggregations are never less than EXPLOSION_COOLDOWN (1500 ms) apart.
C31_AggregationBlocked ==
  /\ (Aggregated /\ ExplodedBefore) =>
        xm.lastAggregationTime - xm.lastExplosionTime >= AGGREGATION_BLOCK_TIME
  /\ AggregationsApart

----------------------------------------------------------------------------
(* Properties of the MechStateMachine *)

\* the place of a state in the chain Assembled - MajorExploded - PartList -
\* PartDetailExploded
Level(state) == CHOOSE i \in 1..Len(MechViewState) : MechViewState[i] = state

\* the last call was a gesture or a selection and has changed the state
MechStepped ==
  /\ mechCall.op \in {"handleGesture", "selectCurrentHighlight"}
  /\ mech.state # mechCall.from

\* C38: the MechStateMachine changes state only between adjacent levels of the chain
\* Assembled - MajorExploded - PartList - PartDetailExploded, one level per handled
\* gesture (FIST steps back from PartList / PartDetailExploded only once
\* partExplosionTarget is at most 0.01), except that reset() returns directly to
\* Assembled; PartList is entered only when currentMajorPart has children.
C38_AdjacentLevels ==
  /\ MechStepped => Abs(Level(mech.state) - Level(mechCall.from)) = 1
  /\ (MechStepped /\ mechCall.arg = "FIST"
        /\ mechCall.from \in {"PartList", "PartDetailExploded"})
       => mechCall.partTarget <= FOne \div 100
  /\ mechCall.op = "reset" => mech.state = "Assembled"
  /\ mech.state = "PartList" => hasChildren(mech.currentMajorPart)

\* a fist has stepped back from PartDetailExploded, the part target at 0, to the
\* PartList of a part with children
C38_Witness ==
  /\ mechCall.op = "handleGesture"
  /\ mechCall.arg = "FIST"
  /\ mechCall.from = "PartDetailExploded"
  /\ mech.state = "PartList"
  /\ mechCall.partTarget = 0
  /\ hasChildren(mech.currentMajorPart)

----------------------------------------------------------------------------
(* Properties of the KeyboardController *)

\* C39: after KeyboardController.dispose() the keydown / keyup handlers are no
\* longer registered on window, so no callback is invoked by any later key event.
C39_DisposeUnregisters ==
  kbCall.disposed =>
    /\ win.listeners = {}
    /\ kbCall.op \in {"keydown", "keyup"} => kbCall.called = "none"

----------------------------------------------------------------------------
(* Properties of the wiring of main.ts *)

\* a state-machine command has just been made through the keyboard or the mouse
WiredCommand ==
  smCall.op \in {"selectHoveredPart", "onDoubleClick", "navigateLeftRight",
                 "goBack", "adjustExplosion"}

\* C33: with main's wiring, after every state-machine command (selectHoveredPart,
\* navigateLeftRight, goBack, adjustExplosion) the mouse controller's
\* interactable-parts set equals SimpleStateMachine.getInteractableParts(): the 7
\* major parts, plus the children of the selected part exactly in PartView.
C33_InteractableInSync ==
  WiredCommand => mouse.interactableParts = getInteractableParts(sm)

----------------------------------------------------------------------------
(* Properties of the SelectionController's focus *)

\* C37: in every state reachable by setSelectedPart, drillDown, goBack and
\* clearSelection, focusMode is 'part' if and only if focusRoot is non-null.
C37_FocusModeIffRoot == (sel.focusMode = "part") <=> (sel.focusRoot # Null)

====
